---- MODULE Spec2Model ----
(***************************************************************************)
(* A model of the labelled containers the notebooks of intro_to_pandas     *)
(* exercise: Series and DataFrame objects, label alignment under           *)
(* arithmetic, and the handling of missing data.  Every operator models    *)
(* the library call of one notebook cell, with the behaviour the cell and  *)
(* its narration show.                                                     *)
(***************************************************************************)
EXTENDS Integers, Sequences, FiniteSets, TLC

VARIABLES lengths2009, lengths2010, testing, recs, segments, segments_hier, data,
          vals, testing_csv, length2009, length2010, index_cache, normal_vals,
          cell, out

vars == <<lengths2009, lengths2010, testing, recs, segments, segments_hier, data,
         vals, testing_csv, length2009, length2010, index_cache, normal_vals,
         cell, out>>

\* Labels of a Series are drawn from 1..MaxLabel.
MaxLabel == 3
\* A Series holds at most MaxLen entries.
MaxLen == 2
\* Row and column labels of the two tables of the table arithmetic are drawn
\* from 1..MaxAxisLabel.
MaxAxisLabel == 2
\* The table of the missing-data cells has at most MaxRows rows and MaxCols
\* columns.
MaxRows == 3
MaxCols == 2

(***************************************************************************)
(* Values.  A cell is the missing marker NaN or a number.                  *)
(***************************************************************************)
NaN == <<>>

Num(v) == <<v>>

isnull(x) == x = NaN

notnull(x) == ~isnull(x)

Range(s) == {s[i] : i \in 1..Len(s)}

(***************************************************************************)
(* A Series: an index (label sequence) and the values, position by         *)
(* position.                                                               *)
(***************************************************************************)
Series(index, values) == [index |-> index, values |-> values]

\* The label sequences without a repeated label, of at most n labels.
UniqueIndexes(labels, n) ==
    {ix \in UNION {[1..k -> labels] : k \in 0..n} :
        \A i, j \in 1..Len(ix) : i # j => ix[i] # ix[j]}

\* Series over an index: each position holds NaN or the number base * position.
SeriesOver(ix, base) ==
    {Series(ix, vs) :
        vs \in {f \in [1..Len(ix) -> {NaN} \cup {Num(base * i) : i \in 1..Len(ix)}] :
                    \A i \in 1..Len(ix) : f[i] \in {NaN, Num(base * i)}}}

(***************************************************************************)
(* Index operations.                                                       *)
(***************************************************************************)
\* Index.equals: same labels in the same order.
equals(self, other) == self = other

Min(S) == CHOOSE x \in S : \A y \in S : x <= y

RECURSIVE sorted(_)
\* The labels of a set in ascending order.
sorted(S) == IF S = {} THEN <<>> ELSE <<Min(S)>> \o sorted(S \ {Min(S)})

\* union without the final sort: self, then the labels only other has.
union_unsorted(self, other) ==
    IF Len(other) = 0 \/ equals(self, other) THEN self
    ELSE IF Len(self) = 0 THEN other
    ELSE self \o SelectSeq(other, LAMBDA l : l \notin Range(self))

\* Index.union of two indexes of unique labels.
union(self, other) ==
    IF Len(other) = 0 \/ equals(self, other) THEN self
    ELSE IF Len(self) = 0 THEN other
    ELSE sorted(Range(self) \cup Range(other))

\* Index.join(other, how='outer') of two indexes of unique labels.
join(self, other) ==
    IF Len(other) = 0 THEN self
    ELSE IF Len(self) = 0 THEN other
    ELSE union(self, other)

\* The first position of a label in an index, 0 when it is absent.
get_loc(index, label) ==
    IF label \in Range(index)
    THEN CHOOSE i \in 1..Len(index) :
            index[i] = label /\ \A j \in 1..(i - 1) : index[j] # label
    ELSE 0

\* reindex that puts 0, not NaN, at a label the Series does not have.
reindex_zero(s, new_index) ==
    Series(new_index,
           [i \in 1..Len(new_index) |->
               IF get_loc(s.index, new_index[i]) = 0 THEN Num(0)
               ELSE s.values[get_loc(s.index, new_index[i])]])

\* Series.reindex: the values at the labels of new_index, NaN where absent.
reindex(s, new_index) ==
    Series(new_index,
           [i \in 1..Len(new_index) |->
               IF get_loc(s.index, new_index[i]) = 0 THEN NaN
               ELSE s.values[get_loc(s.index, new_index[i])]])

\* Index.is_unique of a flat index: no label occurs twice.
index_is_unique(index) == \A i, j \in 1..Len(index) : index[i] = index[j] => i = j

\* The positions of a label in an index, ascending.
positions_of(index, label) == sorted({i \in 1..Len(index) : index[i] = label})

\* The entries of the join for one label that pair every occurrence in self
\* with the first occurrence in other only.
join_group_first(label, lpos, rpos) ==
    IF Len(rpos) = 0 THEN [k \in 1..Len(lpos) |-> <<label, lpos[k], 0>>]
    ELSE IF Len(lpos) = 0 THEN [k \in 1..Len(rpos) |-> <<label, 0, rpos[k]>>]
    ELSE [k \in 1..Len(lpos) |-> <<label, lpos[k], rpos[1]>>]

\* full_outer_join for one label: an entry for every occurrence when only
\* one side has the label (0 marks the side without it), an entry for
\* every pair of occurrences when both have it, the left occurrence varying
\* slowest.
join_group(label, lpos, rpos) ==
    IF Len(rpos) = 0 THEN [k \in 1..Len(lpos) |-> <<label, lpos[k], 0>>]
    ELSE IF Len(lpos) = 0 THEN [k \in 1..Len(rpos) |-> <<label, 0, rpos[k]>>]
    ELSE [p \in 1..(Len(lpos) * Len(rpos)) |->
             <<label, lpos[((p - 1) \div Len(rpos)) + 1], rpos[((p - 1) % Len(rpos)) + 1]>>]

RECURSIVE join_groups(_, _, _)
\* The groups of the labels given, one after the other.
join_groups(labels, self, other) ==
    IF Len(labels) = 0 THEN <<>>
    ELSE join_group(labels[1], positions_of(self, labels[1]), positions_of(other, labels[1]))
         \o join_groups(Tail(labels), self, other)

\* Index._join_non_unique(other, how='outer'): the labels in ascending
\* order with, for each entry, the position it takes from self and from
\* other; a join with an empty index keeps the other side as it is.
join_non_unique(self, other) ==
    IF Len(other) = 0 THEN [k \in 1..Len(self) |-> <<self[k], k, 0>>]
    ELSE IF Len(self) = 0 THEN [k \in 1..Len(other) |-> <<other[k], 0, k>>]
    ELSE join_groups(sorted(Range(self) \cup Range(other)), self, other)

\* Series._reindex_indexer: the values at the positions given, NaN at 0.
reindex_indexer(s, new_index, indexer) ==
    Series(new_index,
           [i \in 1..Len(new_index) |->
               IF indexer[i] = 0 THEN NaN ELSE s.values[indexer[i]]])

\* Series.align(other, join='outer'): nothing to do when the indexes are
\* equal; indexes of unique labels are joined by their union, an index with
\* a repeated label by the pairs of its occurrences.
align(left, right) ==
    IF equals(left.index, right.index) THEN <<left, right>>
    ELSE IF index_is_unique(left.index) /\ index_is_unique(right.index)
    THEN <<reindex(left, join(left.index, right.index)),
           reindex(right, join(left.index, right.index))>>
    ELSE LET joined == join_non_unique(left.index, right.index)
             join_index == [i \in 1..Len(joined) |-> joined[i][1]]
         IN  <<reindex_indexer(left, join_index, [i \in 1..Len(joined) |-> joined[i][2]]),
               reindex_indexer(right, join_index, [i \in 1..Len(joined) |-> joined[i][3]])>>

(***************************************************************************)
(* Arithmetic.                                                             *)
(***************************************************************************)
Ops == {"add", "sub"}

\* The cell last evaluated: its name and its arguments.
Cell(name, args) == [name |-> name, args |-> args]

\* One scalar operation: NaN propagates.
na_op(op, x, y) ==
    IF isnull(x) \/ isnull(y) THEN NaN
    ELSE IF op = "add" THEN Num(x[1] + y[1]) ELSE Num(x[1] - y[1])

\* left + right, left - right: align, then combine position by position.
arith(op, left, right) ==
    LET al == align(left, right)
    IN  Series(al[1].index,
               [i \in 1..Len(al[1].index) |->
                   na_op(op, al[1].values[i], al[2].values[i])])

\* fill_binop that forgets to fill.
fill_binop_nofill(x, y, fill_value) == <<x, y>>

\* fill_binop that fills the left side only.
fill_binop_left(x, y, fill_value) ==
    IF isnull(x) /\ notnull(y) THEN <<fill_value, y>> ELSE <<x, y>>

\* fill_binop: a value missing on one side only is replaced by fill_value.
fill_binop(x, y, fill_value) ==
    IF isnull(x) /\ notnull(y) THEN <<fill_value, y>>
    ELSE IF notnull(x) /\ isnull(y) THEN <<x, fill_value>>
    ELSE <<x, y>>

\* left.add(right, fill_value=...), left.sub(right, fill_value=...).
flex(op, left, right, fill_value) ==
    LET al == align(left, right)
    IN  Series(al[1].index,
               [i \in 1..Len(al[1].index) |->
                   LET f == fill_binop(al[1].values[i], al[2].values[i], fill_value)
                   IN  na_op(op, f[1], f[2])])

(***************************************************************************)
(* A DataFrame: the row index, the column labels, and one sequence of      *)
(* values per column (data[j][i] is the cell of column j in row i).        *)
(***************************************************************************)
DataFrame(index, columns, values) ==
    [index |-> index, columns |-> columns, data |-> values]

EmptyFrame == DataFrame(<<>>, <<>>, <<>>)

\* df[c]: the column labelled c as a Series over the row index.
column(df, c) == Series(df.index, df.data[get_loc(df.columns, c)])

\* reindex of both axes that keeps the values of the first table's columns
\* in the columns the table does not have, where NaN belongs.
frame_reindex_keep(df, new_index, new_columns) ==
    DataFrame(new_index, new_columns,
              [j \in 1..Len(new_columns) |->
                  IF get_loc(df.columns, new_columns[j]) = 0
                  THEN [i \in 1..Len(new_index) |-> Num(0)]
                  ELSE reindex(column(df, new_columns[j]), new_index).values])

\* DataFrame.reindex on both axes: a column the table does not have is NaN
\* in every row, a row it does not have is NaN in every column.
frame_reindex(df, new_index, new_columns) ==
    DataFrame(new_index, new_columns,
              [j \in 1..Len(new_columns) |->
                  IF get_loc(df.columns, new_columns[j]) = 0
                  THEN [i \in 1..Len(new_index) |-> NaN]
                  ELSE reindex(column(df, new_columns[j]), new_index).values])

\* DataFrame.align(other, join='outer'): each axis is joined unless equal.
frame_align(left, right) ==
    LET ix   == IF equals(left.index, right.index) THEN left.index
                ELSE join(left.index, right.index)
        cols == IF equals(left.columns, right.columns) THEN left.columns
                ELSE join(left.columns, right.columns)
    IN  <<frame_reindex(left, ix, cols), frame_reindex(right, ix, cols)>>

\* left + right, left - right of two tables: align both axes, then combine
\* cell by cell.
combine_frame(op, left, right) ==
    LET al == frame_align(left, right)
    IN  DataFrame(al[1].index, al[1].columns,
                  [j \in 1..Len(al[1].columns) |->
                      [i \in 1..Len(al[1].index) |->
                          na_op(op, al[1].data[j][i], al[2].data[j][i])]])

\* The table over a row index and column labels whose cell in the row
\* labelled r and the column labelled c holds base * (10 * c + r), and NaN
\* where r = c + shift.
FrameOver(rows, cols, base, shift) ==
    DataFrame(rows, cols,
              [j \in 1..Len(cols) |->
                  [i \in 1..Len(rows) |->
                      IF rows[i] = cols[j] + shift THEN NaN
                      ELSE Num(base * (10 * cols[j] + rows[i]))]])

Frames(base, shift) ==
    {FrameOver(rows, cols, base, shift) :
        rows \in UniqueIndexes(1..MaxAxisLabel, MaxAxisLabel),
        cols \in UniqueIndexes(1..MaxAxisLabel, MaxAxisLabel)}

(***************************************************************************)
(* Missing data: dropna and fillna.                                        *)
(***************************************************************************)
\* The positions at which a sequence of booleans is TRUE, ascending.
RECURSIVE nonzero(_)
nonzero(mask) ==
    IF Len(mask) = 0 THEN <<>>
    ELSE LET front == nonzero(SubSeq(mask, 1, Len(mask) - 1))
         IN  IF mask[Len(mask)] THEN Append(front, Len(mask)) ELSE front

\* The entries of a sequence at the given positions, in that order.
take(seq, positions) == [k \in 1..Len(positions) |-> seq[positions[k]]]

\* The rows of a table at the given positions.
take_rows(df, positions) ==
    DataFrame(take(df.index, positions), df.columns,
              [j \in 1..Len(df.columns) |-> take(df.data[j], positions)])

\* DataFrame.count(axis=1) at row i: the number of cells that are not NaN.
count_row(df, i) == Cardinality({j \in 1..Len(df.columns) : notnull(df.data[j][i])})

\* thresh=None
NoThresh == -1

Hows == {"any", "all"}

\* dropna in which how wins over thresh.
dropna_how_first(df, how, thresh) ==
    take_rows(df, nonzero([i \in 1..Len(df.index) |->
        IF how = "any" THEN count_row(df, i) = Len(df.columns)
        ELSE count_row(df, i) > 0]))

\* DataFrame.dropna(how=..., thresh=...): the rows that pass are kept.
dropna(df, how, thresh) ==
    take_rows(df, nonzero([i \in 1..Len(df.index) |->
        IF thresh # NoThresh THEN count_row(df, i) >= thresh
        ELSE IF how = "any" THEN count_row(df, i) = Len(df.columns)
        ELSE count_row(df, i) > 0]))

\* fillna with a dict that fills the columns the dict does not name too.
fillna_dict_all(df, value) ==
    DataFrame(df.index, df.columns,
              [j \in 1..Len(df.columns) |->
                  [i \in 1..Len(df.index) |->
                      IF isnull(df.data[j][i]) THEN Num(df.columns[j])
                      ELSE df.data[j][i]]])

\* DataFrame.fillna(value) with a scalar: every NaN cell becomes the value.
fillna(df, value) ==
    DataFrame(df.index, df.columns,
              [j \in 1..Len(df.columns) |->
                  [i \in 1..Len(df.index) |->
                      IF isnull(df.data[j][i]) THEN value ELSE df.data[j][i]]])

\* DataFrame.fillna(value) with a dict from column label to scalar: the NaN
\* cells of the columns the dict names become that column's value.
fillna_dict(df, value) ==
    DataFrame(df.index, df.columns,
              [j \in 1..Len(df.columns) |->
                  [i \in 1..Len(df.index) |->
                      IF isnull(df.data[j][i]) /\ df.columns[j] \in DOMAIN value
                      THEN value[df.columns[j]] ELSE df.data[j][i]]])

RECURSIVE pad_first(_)
\* pad that carries the first value seen, not the most recent one.
pad_first(values) ==
    IF Len(values) = 0 THEN <<>>
    ELSE LET front == pad_first(SubSeq(values, 1, Len(values) - 1))
             last  == values[Len(values)]
         IN  Append(front, IF isnull(last) /\ Len(front) > 0 THEN front[1] ELSE last)

RECURSIVE pad(_)
\* Forward fill of one column: a NaN takes the value carried from above.
pad(values) ==
    IF Len(values) = 0 THEN <<>>
    ELSE LET front == pad(SubSeq(values, 1, Len(values) - 1))
             last  == values[Len(values)]
         IN  Append(front,
                    IF isnull(last) /\ Len(front) > 0 THEN front[Len(front)] ELSE last)

reverse(seq) == [i \in 1..Len(seq) |-> seq[Len(seq) + 1 - i]]

\* Backward fill of one column: the forward fill read from the end.
backfill(values) == reverse(pad(reverse(values)))

Methods == {"ffill", "bfill"}

\* DataFrame.fillna(method=...), column by column.
fillna_method(df, method) ==
    DataFrame(df.index, df.columns,
              [j \in 1..Len(df.columns) |->
                  IF method = "ffill" THEN pad(df.data[j]) ELSE backfill(df.data[j])])

\* The table of r rows and c columns, labels descending on both axes, whose
\* cell in row i of column j is NaN when <<j, i>> is in na and the number
\* 10 * j + i otherwise.
TestingFrame(r, c, na) ==
    DataFrame([i \in 1..r |-> r + 1 - i], [j \in 1..c |-> c + 1 - j],
              [j \in 1..c |->
                  [i \in 1..r |-> IF <<j, i>> \in na THEN NaN ELSE Num(10 * j + i)]])

TestingFrames ==
    UNION {{TestingFrame(r, c, na) : na \in SUBSET ((1..c) \X (1..r))} :
              r \in 0..MaxRows, c \in 0..MaxCols}

InitTesting ==
    /\ lengths2009 = Series(<<>>, <<>>)
    /\ lengths2010 = Series(<<>>, <<>>)
    /\ testing \in TestingFrames
    /\ recs = EmptyFrame
    /\ segments = EmptyFrame
    /\ segments_hier = EmptyFrame
    /\ data = EmptyFrame
    /\ vals = Series(<<>>, <<>>)
    /\ testing_csv = <<>>
    /\ length2009 = Series(<<>>, <<>>)
    /\ length2010 = Series(<<>>, <<>>)
    /\ index_cache = <<>>
    /\ normal_vals = EmptyFrame
    /\ cell = Cell("start", <<>>)
    /\ out = EmptyFrame

\* testing.dropna() / testing.dropna(how='all') / testing.dropna(thresh=10)
Dropna ==
    \E how \in Hows, thresh \in {NoThresh} \cup 0..(Len(testing.columns) + 1) :
        /\ cell' = Cell("dropna", <<how, thresh>>)
        /\ out' = dropna(testing, how, thresh)
        /\ UNCHANGED <<lengths2009, lengths2010, testing, recs, segments, segments_hier, data,
                   vals, testing_csv, length2009, length2010, index_cache, normal_vals>>

NextDropna == Dropna

SpecDropna == InitTesting /\ [][NextDropna]_vars

\* testing.fillna(0)
Fillna ==
    /\ cell' = Cell("fillna", <<Num(0)>>)
    /\ out' = fillna(testing, Num(0))
    /\ UNCHANGED <<lengths2009, lengths2010, testing, recs, segments, segments_hier, data,
                   vals, testing_csv, length2009, length2010, index_cache, normal_vals>>

\* testing.fillna({'family_inv': 0, 'mother_hs': 1}): each column named by
\* the dict gets a value of its own (here its label).
FillnaDict ==
    \E named \in SUBSET Range(testing.columns) :
        /\ cell' = Cell("fillna_dict", <<[c \in named |-> Num(c)]>>)
        /\ out' = fillna_dict(testing, [c \in named |-> Num(c)])
        /\ UNCHANGED <<lengths2009, lengths2010, testing, recs, segments, segments_hier, data,
                   vals, testing_csv, length2009, length2010, index_cache, normal_vals>>

\* testing.fillna(method='bfill') (and method='ffill')
FillnaMethod ==
    \E method \in Methods :
        /\ cell' = Cell("fillna_method", <<method>>)
        /\ out' = fillna_method(testing, method)
        /\ UNCHANGED <<lengths2009, lengths2010, testing, recs, segments, segments_hier, data,
                   vals, testing_csv, length2009, length2010, index_cache, normal_vals>>

NextFillna == Fillna \/ FillnaDict \/ FillnaMethod

SpecFillna == InitTesting /\ [][NextFillna]_vars

(***************************************************************************)
(* Data summarization: sum and mean.                                       *)
(***************************************************************************)
\* A text value, as a column of dtype object holds it.
Text(str) == <<"str", str>>

is_text(x) == Len(x) = 2

\* A column is numeric unless it holds text.
is_numeric(values) == \A i \in 1..Len(values) : ~is_text(values[i])

\* A quotient, in lowest terms.
RECURSIVE gcd(_, _)
gcd(a, b) == IF b = 0 THEN a ELSE gcd(b, a % b)

Ratio(n, d) == <<"ratio", n \div gcd(n, d), d \div gcd(n, d)>>

\* The exception a cell ends with.
Raise(exception) == <<"raise", exception, "", "">>

\* x + y of two values of one column: numbers add, text concatenates, NaN
\* propagates.
na_add(x, y) ==
    IF isnull(x) \/ isnull(y) THEN NaN
    ELSE IF is_text(x) THEN Text(x[2] \o y[2])
    ELSE Num(x[1] + y[1])

RECURSIVE raw_sum(_)
\* The sum of the values of a column, first to last; 0 for no value.
raw_sum(values) ==
    IF Len(values) = 0 THEN Num(0)
    ELSE IF Len(values) = 1 THEN values[1]
    ELSE na_add(raw_sum(SubSeq(values, 1, Len(values) - 1)), values[Len(values)])

\* The values a reduction runs over: with skipna, NaN counts as 0.
get_values(values, skipna) ==
    [i \in 1..Len(values) |-> IF skipna /\ isnull(values[i]) THEN Num(0) ELSE values[i]]

\* The number of values that are not NaN.
get_counts(values) == Cardinality({i \in 1..Len(values) : notnull(values[i])})

nansum(values, skipna) == raw_sum(get_values(values, skipna))

\* nanmean that divides by the length of the column, NaN cells included.
nanmean_len(values, skipna) ==
    LET the_sum == nansum(values, skipna)
    IN  IF isnull(the_sum) \/ get_counts(values) = 0 THEN NaN
        ELSE Ratio(the_sum[1], Len(values))

\* The mean: the sum over the count of the values present, NaN without any.
nanmean(values, skipna) ==
    LET the_sum == nansum(values, skipna)
    IN  IF isnull(the_sum) \/ get_counts(values) = 0 THEN NaN
        ELSE Ratio(the_sum[1], get_counts(values))

\* testing.sum(): one entry per column, text columns included.
frame_sum(df, skipna) ==
    Series(df.columns, [j \in 1..Len(df.columns) |-> nansum(df.data[j], skipna)])

\* mean over a table that keeps an entry (NaN) for a column of text.
frame_mean_all(df, skipna) ==
    Series(df.columns,
           [j \in 1..Len(df.columns) |->
               IF is_numeric(df.data[j]) THEN nanmean(df.data[j], skipna) ELSE NaN])

\* testing.mean(): one entry per numeric column; the other columns are
\* left out.
frame_mean(df, skipna) ==
    LET numeric == nonzero([j \in 1..Len(df.columns) |-> is_numeric(df.data[j])])
    IN  Series(take(df.columns, numeric),
               [k \in 1..Len(numeric) |-> nanmean(df.data[numeric[k]], skipna)])

\* The mean of one Series: impossible for text.
series_mean(s, skipna) ==
    IF is_numeric(s.values) THEN nanmean(s.values, skipna) ELSE Raise("TypeError")

Letters == <<"a", "b", "c", "d", "e", "f">>

\* The table of r rows and c columns in which the columns in text hold the
\* text Letters[i] in row i; a cell of another column is NaN when <<j, i>>
\* is in na and the number 10 * j + i otherwise.
MixedFrame(r, c, na, text) ==
    DataFrame([i \in 1..r |-> r + 1 - i], [j \in 1..c |-> c + 1 - j],
              [j \in 1..c |->
                  [i \in 1..r |->
                      IF j \in text THEN Text(Letters[i])
                      ELSE IF <<j, i>> \in na THEN NaN ELSE Num(10 * j + i)]])

MixedFrames ==
    UNION {{MixedFrame(r, c, na, text) :
               na \in SUBSET (((1..c) \ text) \X (1..r))} :
              r \in 0..MaxRows, c \in 0..MaxCols, text \in SUBSET (1..MaxCols)}

InitReduce ==
    /\ lengths2009 = Series(<<>>, <<>>)
    /\ lengths2010 = Series(<<>>, <<>>)
    /\ testing \in MixedFrames
    /\ recs = EmptyFrame
    /\ segments = EmptyFrame
    /\ segments_hier = EmptyFrame
    /\ data = EmptyFrame
    /\ vals = Series(<<>>, <<>>)
    /\ testing_csv = <<>>
    /\ length2009 = Series(<<>>, <<>>)
    /\ length2010 = Series(<<>>, <<>>)
    /\ index_cache = <<>>
    /\ normal_vals = EmptyFrame
    /\ cell = Cell("start", <<>>)
    /\ out = EmptyFrame

\* testing.sum()
Sum ==
    \E skipna \in BOOLEAN :
        /\ cell' = Cell("sum", <<skipna>>)
        /\ out' = frame_sum(testing, skipna)
        /\ UNCHANGED <<lengths2009, lengths2010, testing, recs, segments, segments_hier, data,
                   vals, testing_csv, length2009, length2010, index_cache, normal_vals>>

\* testing.mean() / testing.mean(skipna=False)
Mean ==
    \E skipna \in BOOLEAN :
        /\ cell' = Cell("mean", <<skipna>>)
        /\ out' = frame_mean(testing, skipna)
        /\ UNCHANGED <<lengths2009, lengths2010, testing, recs, segments, segments_hier, data,
                   vals, testing_csv, length2009, length2010, index_cache, normal_vals>>

\* the mean of one column of the table, taken as a Series
SeriesMean ==
    \E c \in Range(testing.columns), skipna \in BOOLEAN :
        /\ cell' = Cell("series_mean", <<skipna, c>>)
        /\ out' = series_mean(column(testing, c), skipna)
        /\ UNCHANGED <<lengths2009, lengths2010, testing, recs, segments, segments_hier, data,
                   vals, testing_csv, length2009, length2010, index_cache, normal_vals>>

NextReduce == Sum \/ Mean \/ SeriesMean

SpecReduce == InitReduce /\ [][NextReduce]_vars

(***************************************************************************)
(* Dropping and filtering.                                                 *)
(***************************************************************************)
\* DataFrame.drop(label, axis=1): the table without the column.
drop_column(df, label) ==
    LET keep == nonzero([j \in 1..Len(df.columns) |-> df.columns[j] # label])
    IN  DataFrame(df.index, take(df.columns, keep), take(df.data, keep))

\* DataFrame.drop(label): the table without the row.
drop_row(df, label) ==
    take_rows(df, nonzero([i \in 1..Len(df.index) |-> df.index[i] # label]))

\* df[df[c] > v]: the rows whose cell in column c is a number above v.
filter_gt(df, c, v) ==
    take_rows(df, nonzero([i \in 1..Len(df.index) |->
        /\ notnull(column(df, c).values[i])
        /\ column(df, c).values[i][1] > v]))

\* df.iloc[i, j] = v, in place.
setitem(df, j, i, v) == [df EXCEPT !.data[j][i] = v]

(***************************************************************************)
(* The cells.                                                              *)
(***************************************************************************)
InitAlign ==
    /\ \E ix \in UniqueIndexes(1..MaxLabel, MaxLen) :
          lengths2009 \in SeriesOver(ix, 1)
    /\ \E ix \in UniqueIndexes(1..MaxLabel, MaxLen) :
          lengths2010 \in SeriesOver(ix, 10)
    /\ testing = EmptyFrame
    /\ recs = EmptyFrame
    /\ segments = EmptyFrame
    /\ segments_hier = EmptyFrame
    /\ data = EmptyFrame
    /\ vals = Series(<<>>, <<>>)
    /\ testing_csv = <<>>
    /\ length2009 = Series(<<>>, <<>>)
    /\ length2010 = Series(<<>>, <<>>)
    /\ index_cache = <<>>
    /\ normal_vals = EmptyFrame
    /\ cell = Cell("start", <<>>)
    /\ out = Series(<<>>, <<>>)

\* seg_lengths = lengths2009 + lengths2010 (and the same with -)
SegLengths ==
    \E op \in Ops :
        /\ cell' = Cell("arith", <<op>>)
        /\ out' = arith(op, lengths2009, lengths2010)
        /\ UNCHANGED <<lengths2009, lengths2010, testing, recs, segments, segments_hier, data,
                   vals, testing_csv, length2009, length2010, index_cache, normal_vals>>

\* lengths2009.add(lengths2010, fill_value=0)
AddFill ==
    /\ cell' = Cell("flex", <<"add">>)
    /\ out' = flex("add", lengths2009, lengths2010, Num(0))
    /\ UNCHANGED <<lengths2009, lengths2010, testing, recs, segments, segments_hier, data,
                   vals, testing_csv, length2009, length2010, index_cache, normal_vals>>

NextAlign == SegLengths \/ AddFill

SpecAlign == InitAlign /\ [][NextAlign]_vars

InitFrame ==
    /\ lengths2009 = Series(<<>>, <<>>)
    /\ lengths2010 = Series(<<>>, <<>>)
    /\ testing \in Frames(1, 0)
    /\ recs \in Frames(100, 1)
    /\ segments = EmptyFrame
    /\ segments_hier = EmptyFrame
    /\ data = EmptyFrame
    /\ vals = Series(<<>>, <<>>)
    /\ testing_csv = <<>>
    /\ length2009 = Series(<<>>, <<>>)
    /\ length2010 = Series(<<>>, <<>>)
    /\ index_cache = <<>>
    /\ normal_vals = EmptyFrame
    /\ cell = Cell("start", <<>>)
    /\ out = EmptyFrame

\* diff = recs - other (and the same with +), both operands tables
FrameArith ==
    \E op \in Ops :
        /\ cell' = Cell("combine_frame", <<op>>)
        /\ out' = combine_frame(op, testing, recs)
        /\ UNCHANGED <<lengths2009, lengths2010, testing, recs, segments, segments_hier, data,
                   vals, testing_csv, length2009, length2010, index_cache, normal_vals>>

NextFrame == FrameArith

SpecFrame == InitFrame /\ [][NextFrame]_vars

(***************************************************************************)
(* A session: the cells that derive a new object from the table and the    *)
(* Series, and the assignment that changes the table in place.             *)
(***************************************************************************)
Init ==
    /\ lengths2009 = Series(<<3, 1>>, <<Num(1), Num(2)>>)
    /\ lengths2010 = Series(<<1, 2>>, <<Num(10), NaN>>)
    /\ testing = TestingFrame(2, 2, {})
    /\ recs = FrameOver(<<2, 3>>, <<1>>, 100, 1)
    /\ segments = EmptyFrame
    /\ segments_hier = EmptyFrame
    /\ data = EmptyFrame
    /\ vals = Series(<<>>, <<>>)
    /\ testing_csv = <<>>
    /\ length2009 = Series(<<>>, <<>>)
    /\ length2010 = Series(<<>>, <<>>)
    /\ index_cache = <<>>
    /\ normal_vals = EmptyFrame
    /\ cell = Cell("start", <<>>)
    /\ out = EmptyFrame

\* vals[5] = 0 / data.value[[3,4,6]] = [14, 21, 5]: assignment to a cell of
\* the table; the cell shows nothing.
SetItem ==
    \E j \in 1..Len(testing.columns), i \in 1..Len(testing.index), v \in {NaN, Num(0)} :
        /\ testing' = setitem(testing, j, i, v)
        /\ cell' = Cell("setitem", <<j, i, v>>)
        /\ out' = EmptyFrame
        /\ UNCHANGED <<lengths2009, lengths2010, recs, segments, segments_hier, data,
                   vals, testing_csv, length2009, length2010, index_cache, normal_vals>>

\* drop with inplace=True: the table itself loses the column.
DropInplace ==
    \E c \in Range(testing.columns) :
        /\ cell' = Cell("drop", <<c, 1>>)
        /\ testing' = drop_column(testing, c)
        /\ out' = EmptyFrame
        /\ UNCHANGED <<lengths2009, lengths2010, recs, segments, segments_hier, data,
                   vals, testing_csv, length2009, length2010, index_cache, normal_vals>>

\* data.drop('month', axis=1)
Drop ==
    \E c \in Range(testing.columns) :
        /\ cell' = Cell("drop", <<c, 1>>)
        /\ out' = drop_column(testing, c)
        /\ UNCHANGED <<lengths2009, lengths2010, testing, recs, segments, segments_hier, data,
                   vals, testing_csv, length2009, length2010, index_cache, normal_vals>>

\* drop of a row, the default axis
DropRow ==
    \E l \in Range(testing.index) :
        /\ cell' = Cell("drop", <<l, 0>>)
        /\ out' = drop_row(testing, l)
        /\ UNCHANGED <<lengths2009, lengths2010, testing, recs, segments, segments_hier, data,
                   vals, testing_csv, length2009, length2010, index_cache, normal_vals>>

\* vessels[vessels.max_loa > 700]
Filter ==
    \E c \in Range(testing.columns), v \in {0, 11} :
        /\ cell' = Cell("filter", <<c, v>>)
        /\ out' = filter_gt(testing, c, v)
        /\ UNCHANGED <<lengths2009, lengths2010, testing, recs, segments, segments_hier, data,
                   vals, testing_csv, length2009, length2010, index_cache, normal_vals>>

Next ==
    \/ SetItem
    \/ Dropna \/ Fillna \/ FillnaDict \/ FillnaMethod
    \/ Drop \/ DropRow \/ Filter
    \/ SegLengths \/ AddFill \/ FrameArith

Spec == Init /\ [][Next]_vars

(***************************************************************************)
(* Sorting and ranking.                                                    *)
(***************************************************************************)
MaxKey == 2

MaxVal == 3

\* The permutations of 1..n, as sequences.
Permutations_of(n) == {p \in [1..n -> 1..n] : \A i, j \in 1..n : p[i] = p[j] => i = j}

\* labels.is_monotonic_increasing / is_monotonic_decreasing
is_monotonic(items, ascending) ==
    \A k \in 1..(Len(items) - 1) :
        IF ascending THEN items[k] <= items[k + 1] ELSE items[k] >= items[k + 1]

\* nargsort that never looks at the direction.
nargsort_ascending(items, ascending) ==
    {p \in Permutations_of(Len(items)) : is_monotonic(take(items, p), TRUE)}

\* nargsort(items, kind='quicksort', ascending): an indexer that puts the
\* items in order.  quicksort is not a stable sort, so every indexer that
\* orders the items is a possible result: the order of equal items is not
\* determined.
nargsort(items, ascending) ==
    {p \in Permutations_of(Len(items)) : is_monotonic(take(items, p), ascending)}

\* DataFrame.take along the column axis
take_columns(df, positions) ==
    DataFrame(df.index, take(df.columns, positions), take(df.data, positions))

\* DataFrame.sort_index(axis, ascending): the frames the call can return.
\* An axis already in the requested order is returned as it is.
sort_index(df, axis, ascending) ==
    LET labels == IF axis = 0 THEN df.index ELSE df.columns
    IN  IF is_monotonic(labels, ascending)
        THEN {df}
        ELSE {IF axis = 0 THEN take_rows(df, indexer) ELSE take_columns(df, indexer) :
                 indexer \in nargsort(labels, ascending)}

\* Twice the number a value stands for: values are whole numbers Num(v) or
\* ratios of denominator 1 or 2, so the keys order as the floats do.
as_key(x) == IF Len(x) = 1 THEN 2 * x[1] ELSE (2 * x[2]) \div x[3]

\* Series.sort_values(ascending): the Series the call can return.
series_sort_values(s, ascending) ==
    {Series(take(s.index, indexer), take(s.values, indexer)) :
        indexer \in nargsort([i \in 1..Len(s.values) |-> as_key(s.values[i])], ascending)}

\* Row i goes before row j in the composite order of the keys: on the first
\* key where they differ i comes first in that key's direction, and rows
\* equal on every key stay in input order.
lex_before(keys, orders, i, j) ==
    \/ \E k \in 1..Len(keys) :
          /\ \A h \in 1..(k - 1) : keys[h][i] = keys[h][j]
          /\ IF orders[k] THEN keys[k][i] < keys[k][j] ELSE keys[k][i] > keys[k][j]
    \/ (\A k \in 1..Len(keys) : keys[k][i] = keys[k][j]) /\ i < j

\* lexsort_indexer with one direction, the first, for every key.
lexsort_indexer_one_order(keys, orders) ==
    LET n == IF Len(keys) = 0 THEN 0 ELSE Len(keys[1])
        first == [k \in 1..Len(keys) |-> orders[1]]
    IN  [p \in 1..n |->
            CHOOSE i \in 1..n :
                Cardinality({j \in 1..n : lex_before(keys, first, j, i)}) = p - 1]

\* lexsort_indexer(keys, orders): the indexer of the composite sort.
lexsort_indexer(keys, orders) ==
    LET n == IF Len(keys) = 0 THEN 0 ELSE Len(keys[1])
    IN  [p \in 1..n |->
            CHOOSE i \in 1..n :
                Cardinality({j \in 1..n : lex_before(keys, orders, j, i)}) = p - 1]

\* DataFrame.sort_values(by, ascending): the frames the call can return.
\* Several keys go through lexsort_indexer, one key through nargsort.
sort_values(df, by, ascending) ==
    LET keys == [k \in 1..Len(by) |->
                    [i \in 1..Len(df.index) |-> as_key(column(df, by[k]).values[i])]]
    IN  IF Len(by) > 1
        THEN {take_rows(df, lexsort_indexer(keys, ascending))}
        ELSE {take_rows(df, indexer) : indexer \in nargsort(keys[1], ascending[1])}

\* An argsort that puts equal values in the reverse of their input order.
argsort_reversed_ties(values) ==
    lexsort_indexer(<<[i \in 1..Len(values) |-> as_key(values[i])],
                      [i \in 1..Len(values) |-> i]>>, <<TRUE, FALSE>>)

\* values.argsort(kind='mergesort'): the stable indexer.
argsort(values) ==
    lexsort_indexer(<<[i \in 1..Len(values) |-> as_key(values[i])]>>, <<TRUE>>)

TiesMethods == {"average", "min", "max", "first"}

\* A tie_rank whose default gives the lowest rank of the group.
tie_rank_low(ties_method, i, j, sum_ranks, dups) ==
    CASE ties_method = "average" -> Ratio(i - dups + 1, 1)
      [] ties_method = "min" -> Ratio(i - dups + 1, 1)
      [] ties_method = "max" -> Ratio(i, 1)
      [] ties_method = "first" -> Ratio(j, 1)

\* The rank given to the element at sorted position j of a group of dups
\* equal elements that ends at sorted position i, sum_ranks being the sum of
\* the group's positions.
tie_rank(ties_method, i, j, sum_ranks, dups) ==
    CASE ties_method = "average" -> Ratio(sum_ranks, dups)
      [] ties_method = "min" -> Ratio(i - dups + 1, 1)
      [] ties_method = "max" -> Ratio(i, 1)
      [] ties_method = "first" -> Ratio(j, 1)

RECURSIVE rank_loop(_, _, _, _, _, _, _)
\* The loop of rank_1d over the sorted data, at sorted position i.
rank_loop(sorted_data, argsorted, ties_method, i, sum_ranks, dups, ranks) ==
    IF i > Len(sorted_data)
    THEN ranks
    ELSE IF i = Len(sorted_data) \/ sorted_data[i + 1] # sorted_data[i]
         THEN rank_loop(sorted_data, argsorted, ties_method, i + 1, 0, 0,
                        [p \in 1..Len(ranks) |->
                            IF \E j \in (i - dups)..i : argsorted[j] = p
                            THEN LET j == CHOOSE j \in (i - dups)..i : argsorted[j] = p
                                 IN  tie_rank(ties_method, i, j, sum_ranks + i, dups + 1)
                            ELSE ranks[p]])
         ELSE rank_loop(sorted_data, argsorted, ties_method, i + 1,
                        sum_ranks + i, dups + 1, ranks)

\* rank_1d(values, ties_method): the ranks, position by position.
rank_1d(values, ties_method) ==
    LET argsorted == argsort(values)
    IN  rank_loop(take(values, argsorted), argsorted, ties_method, 1, 0, 0,
                  [p \in 1..Len(values) |-> NaN])

\* Series.rank(method)
rank(s, method) == Series(s.index, rank_1d(s.values, method))

\* RangeIndex(n): the default index 0..n-1.
RangeIndex(n) == [i \in 1..n |-> i - 1]

\* The table of the segments read from the file, with the default index:
\* column 1 (avg_sog) holds the values given.
SegmentsOf(avg_sog) == DataFrame(RangeIndex(Len(avg_sog)), <<1>>, <<avg_sog>>)

InitRank ==
    /\ lengths2009 = Series(<<>>, <<>>)
    /\ lengths2010 = Series(<<>>, <<>>)
    /\ testing = EmptyFrame
    /\ recs = EmptyFrame
    /\ \E n \in 0..MaxRows :
          segments \in {SegmentsOf([i \in 1..n |-> Num(v[i])]) : v \in [1..n -> 1..MaxVal]}
    /\ segments_hier = EmptyFrame
    /\ data = EmptyFrame
    /\ vals = Series(<<>>, <<>>)
    /\ testing_csv = <<>>
    /\ length2009 = Series(<<>>, <<>>)
    /\ length2010 = Series(<<>>, <<>>)
    /\ index_cache = <<>>
    /\ normal_vals = EmptyFrame
    /\ cell = Cell("start", <<>>)
    /\ out = EmptyFrame

\* segments.avg_sog.rank() and rank(method=...) with the other methods
Rank ==
    \E method \in TiesMethods :
        /\ cell' = Cell("rank", <<method>>)
        /\ out' = rank(column(segments, 1), method)
        /\ UNCHANGED <<lengths2009, lengths2010, testing, recs, segments, segments_hier, data,
                   vals, testing_csv, length2009, length2010, index_cache, normal_vals>>

\* pd.Series([100,100,100]).rank()
RankLiteral ==
    /\ cell' = Cell("rank_literal", <<"average">>)
    /\ out' = rank(Series(RangeIndex(3), <<Num(100), Num(100), Num(100)>>), "average")
    /\ UNCHANGED <<lengths2009, lengths2010, testing, recs, segments, segments_hier, data,
                   vals, testing_csv, length2009, length2010, index_cache, normal_vals>>

\* segments.avg_sog.rank(method='first').sort_values()
RankFirstSorted ==
    /\ cell' = Cell("rank_sorted", <<"first">>)
    /\ out' \in series_sort_values(rank(column(segments, 1), "first"), TRUE)
    /\ UNCHANGED <<lengths2009, lengths2010, testing, recs, segments, segments_hier, data,
                   vals, testing_csv, length2009, length2010, index_cache, normal_vals>>

NextRank == Rank \/ RankLiteral \/ RankFirstSorted

SpecRank == InitRank /\ [][NextRank]_vars

\* The table with the row labels and the column labels given, whose cell in
\* row i of column j is the number 10 * j + i: every entry of either axis is
\* told from the others by its data.
SortFrame(index, columns) ==
    DataFrame(index, columns,
              [j \in 1..Len(columns) |-> [i \in 1..Len(index) |-> Num(10 * j + i)]])

\* Row labels may repeat and come in any order; column labels are distinct.
SortFrames ==
    UNION {{SortFrame(index, columns) : index \in [1..n -> 1..MaxKey]} :
              n \in 0..MaxRows,
              columns \in UniqueIndexes(1..MaxAxisLabel, MaxCols)}

InitSort ==
    /\ lengths2009 = Series(<<>>, <<>>)
    /\ lengths2010 = Series(<<>>, <<>>)
    /\ testing = EmptyFrame
    /\ recs = EmptyFrame
    /\ segments \in SortFrames
    /\ segments_hier = EmptyFrame
    /\ data = EmptyFrame
    /\ vals = Series(<<>>, <<>>)
    /\ testing_csv = <<>>
    /\ length2009 = Series(<<>>, <<>>)
    /\ length2010 = Series(<<>>, <<>>)
    /\ index_cache = <<>>
    /\ normal_vals = EmptyFrame
    /\ cell = Cell("start", <<>>)
    /\ out = EmptyFrame

\* segments.sort_index() / segments.sort_index(ascending=False) /
\* segments.sort_index(axis=1)
SortIndex ==
    \E axis \in {0, 1}, ascending \in BOOLEAN :
        /\ cell' = Cell("sort_index", <<axis, ascending>>)
        /\ out' \in sort_index(segments, axis, ascending)
        /\ UNCHANGED <<lengths2009, lengths2010, testing, recs, segments, segments_hier, data,
                   vals, testing_csv, length2009, length2010, index_cache, normal_vals>>

NextSort == SortIndex

SpecSort == InitSort /\ [][NextSort]_vars

\* The table of the three speed columns 1, 2, 3 (avg_sog, max_sog, min_sog)
\* under the default index; a segment's lowest speed is at most its highest.
SpeedFrame(max_sog, min_sog) ==
    DataFrame(RangeIndex(Len(max_sog)), <<1, 2, 3>>,
              <<[i \in 1..Len(max_sog) |-> Num(10 * i)],
                [i \in 1..Len(max_sog) |-> Num(max_sog[i])],
                [i \in 1..Len(max_sog) |-> Num(min_sog[i])]>>)

InitSortValues ==
    /\ lengths2009 = Series(<<>>, <<>>)
    /\ lengths2010 = Series(<<>>, <<>>)
    /\ testing = EmptyFrame
    /\ recs = EmptyFrame
    /\ \E n \in 0..MaxRows :
          \E max_sog \in [1..n -> 1..MaxKey] :
              \E min_sog \in {m \in [1..n -> 1..MaxKey] : \A i \in 1..n : m[i] <= max_sog[i]} :
                  segments = SpeedFrame(max_sog, min_sog)
    /\ segments_hier = EmptyFrame
    /\ data = EmptyFrame
    /\ vals = Series(<<>>, <<>>)
    /\ testing_csv = <<>>
    /\ length2009 = Series(<<>>, <<>>)
    /\ length2010 = Series(<<>>, <<>>)
    /\ index_cache = <<>>
    /\ normal_vals = EmptyFrame
    /\ cell = Cell("start", <<>>)
    /\ out = EmptyFrame

\* segments[['avg_sog','max_sog','min_sog']].sort_values(
\*     ascending=[False,True], by=['max_sog', 'min_sog'])
\* with the two key columns in either order and each in either direction.
SortValues ==
    \E by \in {<<2, 3>>, <<3, 2>>} :
        \E ascending \in [1..Len(by) -> BOOLEAN] :
            /\ cell' = Cell("sort_values", <<by, ascending>>)
            /\ out' \in sort_values(segments, by, ascending)
            /\ UNCHANGED <<lengths2009, lengths2010, testing, recs, segments, segments_hier, data,
                   vals, testing_csv, length2009, length2010, index_cache, normal_vals>>

NextSortValues == SortValues

SpecSortValues == InitSortValues /\ [][NextSortValues]_vars

(***************************************************************************)
(* Hierarchical indexing.  The index of segments_hier is a MultiIndex: a   *)
(* label is the tuple of its level values, and names holds the names of    *)
(* the levels.  Three of the five levels of the notebook are kept: mmsi,   *)
(* year and transit, the columns 1, 2 and 3 of segments; column 4 is       *)
(* seg_length.                                                             *)
(***************************************************************************)
MaxHier == 2

\* The values of the columns mmsi, year and transit.
LevelValues == <<{1, 9}, {2009, 2010}, {1, 2, 3}>>

Keys == LevelValues[1] \X LevelValues[2] \X LevelValues[3]

\* The exception a cell raises.
Exception(name) == [exception |-> name]

\* a comes before b in tuple order.
tuple_less(a, b) ==
    \E k \in 1..Len(a) : (\A h \in 1..(k - 1) : a[h] = b[h]) /\ a[k] < b[k]

\* The table read from the file whose rows hold the keys given; seg_length
\* holds the number of the row.
SegmentsTable(rows) ==
    DataFrame(RangeIndex(Len(rows)), <<1, 2, 3, 4>>,
              <<[i \in 1..Len(rows) |-> Num(rows[i][1])],
                [i \in 1..Len(rows) |-> Num(rows[i][2])],
                [i \in 1..Len(rows) |-> Num(rows[i][3])],
                [i \in 1..Len(rows) |-> Num(i)]>>)

\* The file holds its rows in descending order of the key, and may hold a
\* key more than once.
SegmentsTables ==
    UNION {{SegmentsTable(rows) :
               rows \in {r \in [1..n -> Keys] :
                            \A i \in 1..(n - 1) : ~tuple_less(r[i], r[i + 1])}} :
              n \in 0..MaxHier}

\* A table under a MultiIndex with the level names given.
with_names(df, names) ==
    [index |-> df.index, columns |-> df.columns, data |-> df.data, names |-> names]

\* DataFrame.set_index(keys): the columns named become the levels of the
\* index and leave the table.
set_index(df, keys) ==
    LET rest == nonzero([j \in 1..Len(df.columns) |-> df.columns[j] \notin Range(keys)])
    IN  with_names(
            DataFrame([i \in 1..Len(df.index) |->
                          [k \in 1..Len(keys) |-> column(df, keys[k]).values[i][1]]],
                      take(df.columns, rest), take(df.data, rest)),
            keys)

\* DataFrame.sort_index() under a MultiIndex: the rows in the order of
\* lexsort_indexer over the levels.
sort_index_levels(df) ==
    LET levels == [k \in 1..Len(df.names) |-> [i \in 1..Len(df.index) |-> df.index[i][k]]]
    IN  with_names(take_rows(df, lexsort_indexer(levels, [k \in 1..Len(df.names) |-> TRUE])),
                   df.names)

\* MultiIndex.is_unique
is_unique(index) == \A i, j \in 1..Len(index) : index[i] = index[j] => i = j

\* A label whose first level alone decides the match.
starts_with_first(label, key) == label[1] = key[1]

\* The label starts with the key, level by level.
starts_with(label, key) == \A k \in 1..Len(key) : label[k] = key[k]

\* MultiIndex.get_loc(key): the positions of the labels that start with the
\* key, ascending.
get_locs_of(index, key) == nonzero([i \in 1..Len(index) |-> starts_with(index[i], key)])

\* droplevel that drops nothing.
droplevel_none(label, n) == label

\* The label without its first n levels; a single level left is a plain
\* label and not a tuple.
droplevel(label, n) ==
    IF Len(label) - n = 1 THEN label[Len(label)] ELSE SubSeq(label, n + 1, Len(label))

\* A lookup that answers an absent key with a row of NaN.
loc_reindex(df, key) ==
    LET positions == get_locs_of(df.index, key)
    IN  IF Len(positions) = 0
        THEN Series(df.columns, [j \in 1..Len(df.columns) |-> NaN])
        ELSE Series(df.columns, [j \in 1..Len(df.columns) |-> df.data[j][positions[1]]])

\* segments_hier.loc[key] with a key of one level value per level from the
\* outermost inwards: the row as a Series when the key is complete and
\* matches one row; the matching rows, under the levels the key leaves, when
\* the key is a prefix; KeyError when no label starts with the key.
loc(df, key) ==
    LET positions == get_locs_of(df.index, key)
    IN  IF Len(positions) = 0
        THEN Exception("KeyError")
        ELSE IF Len(key) = Len(df.names)
             THEN IF Len(positions) = 1
                  THEN Series(df.columns,
                              [j \in 1..Len(df.columns) |-> df.data[j][positions[1]]])
                  ELSE with_names(take_rows(df, positions), df.names)
             ELSE LET rows == take_rows(df, positions)
                  IN  with_names(
                          DataFrame([i \in 1..Len(rows.index) |->
                                        droplevel(rows.index[i], Len(key))],
                                    rows.columns, rows.data),
                          SubSeq(df.names, Len(key) + 1, Len(df.names)))

\* swaplevel that exchanges the names of the levels and leaves the labels.
swaplevel_names(df, i, j) ==
    LET a == get_loc(df.names, i)
        b == get_loc(df.names, j)
    IN  [df EXCEPT !.names = [k \in 1..Len(df.names) |->
                                 IF k = a THEN df.names[b]
                                 ELSE IF k = b THEN df.names[a] ELSE df.names[k]]]

\* DataFrame.swaplevel(i, j): levels i and j change places in every label
\* and in the names; the rows stay where they are.
swaplevel(df, i, j) ==
    LET a == get_loc(df.names, i)
        b == get_loc(df.names, j)
        swap(s) == [k \in 1..Len(s) |->
                       IF k = a THEN s[b] ELSE IF k = b THEN s[a] ELSE s[k]]
    IN  [df EXCEPT !.index = [r \in 1..Len(df.index) |-> swap(df.index[r])],
                   !.names = swap(df.names)]

\* The selections of pd.IndexSlice for one level: everything (:), one
\* value, a list of values, a range of labels with both ends included.
slice_all == [kind |-> "all", start |-> 0, stop |-> 0, values |-> {}]

scalar(v) == [kind |-> "scalar", start |-> v, stop |-> v, values |-> {v}]

list(values) == [kind |-> "list", start |-> 0, stop |-> 0, values |-> values]

slice(start, stop) == [kind |-> "slice", start |-> start, stop |-> stop, values |-> {}]

\* The level value x is selected by the selection k.
level_match(k, x) ==
    CASE k.kind = "all" -> TRUE
      [] k.kind = "scalar" -> x = k.start
      [] k.kind = "list" -> x \in k.values
      [] k.kind = "slice" -> k.start <= x /\ x <= k.stop

\* get_locs that takes the rows selected on their first level.
get_locs_first(index, seq) ==
    nonzero([i \in 1..Len(index) |-> level_match(seq[1], index[i][1])])

\* MultiIndex.get_locs(seq): the positions selected on every level.
get_locs(index, seq) ==
    nonzero([i \in 1..Len(index) |->
                \A k \in 1..Len(seq) : level_match(seq[k], index[i][k])])

\* segments_hier.loc[pd.IndexSlice[...], column]: the column over the rows
\* selected on every level, under their labels; a single value that no
\* label holds on its level is a KeyError.
loc_slice(df, seq, c) ==
    IF \E k \in 1..Len(seq) :
          seq[k].kind = "scalar" /\ \A i \in 1..Len(df.index) : df.index[i][k] # seq[k].start
    THEN Exception("KeyError")
    ELSE LET positions == get_locs(df.index, seq)
         IN  Series(take(df.index, positions), take(df.data[get_loc(df.columns, c)], positions))

\* frame = pd.DataFrame(np.arange(12).reshape((4, 3)), index=[[a, a, b, b],
\* [1, 2, 1, 2]], columns=[[Ohio, Ohio, Colorado], [Green, Red, Green]]),
\* with the names given to the levels of both axes.
frame ==
    [index |-> <<(<<"a", 1>>), (<<"a", 2>>), (<<"b", 1>>), (<<"b", 2>>)>>,
     columns |-> <<(<<"Ohio", "Green">>), (<<"Ohio", "Red">>), (<<"Colorado", "Green">>)>>,
     data |-> [j \in 1..3 |-> [i \in 1..4 |-> Num(3 * (i - 1) + (j - 1))]],
     names |-> <<"key1", "key2">>,
     column_names |-> <<"state", "color">>]

\* frame.loc[row_key, column_key] with a prefix of the row labels and a
\* prefix of the column labels (the pair is no row label as a whole): the
\* cells of the matching rows and columns, each axis under the levels its
\* key leaves; KeyError when either key matches nothing.
loc_axes(df, row_key, column_key) ==
    LET rows == get_locs_of(df.index, row_key)
        cols == get_locs_of(df.columns, column_key)
    IN  IF Len(rows) = 0 \/ Len(cols) = 0
        THEN Exception("KeyError")
        ELSE [index |-> [i \in 1..Len(rows) |-> droplevel(df.index[rows[i]], Len(row_key))],
              columns |-> [j \in 1..Len(cols) |->
                              droplevel(df.columns[cols[j]], Len(column_key))],
              data |-> [j \in 1..Len(cols) |-> take(df.data[cols[j]], rows)],
              names |-> SubSeq(df.names, Len(row_key) + 1, Len(df.names)),
              column_names |-> SubSeq(df.column_names, Len(column_key) + 1,
                                      Len(df.column_names))]

InitHier ==
    /\ lengths2009 = Series(<<>>, <<>>)
    /\ lengths2010 = Series(<<>>, <<>>)
    /\ testing = EmptyFrame
    /\ recs = EmptyFrame
    /\ segments \in SegmentsTables
    /\ segments_hier = sort_index_levels(set_index(segments, <<1, 2, 3>>))
    /\ data = EmptyFrame
    /\ vals = Series(<<>>, <<>>)
    /\ testing_csv = <<>>
    /\ length2009 = Series(<<>>, <<>>)
    /\ length2010 = Series(<<>>, <<>>)
    /\ index_cache = <<>>
    /\ normal_vals = EmptyFrame
    /\ cell = Cell("start", <<>>)
    /\ out = EmptyFrame

\* segments_hier.loc[(366766980, 'Sentinel', 2009, 10, 1)] / segments_hier.loc[9]
Loc ==
    \E n \in 1..Len(segments_hier.names) :
        \E key \in {SubSeq(k, 1, n) : k \in Keys} :
            /\ cell' = Cell("loc", <<key>>)
            /\ out' = loc(segments_hier, key)
            /\ UNCHANGED <<lengths2009, lengths2010, testing, recs, segments, segments_hier, data,
                   vals, testing_csv, length2009, length2010, index_cache, normal_vals>>

\* frame.loc['a', 'Ohio']
FrameLoc ==
    \E key1 \in {"a", "b", "c"}, state \in {"Ohio", "Colorado", "Texas"} :
        /\ cell' = Cell("frame_loc", <<key1, state>>)
        /\ out' = loc_axes(frame, <<key1>>, <<state>>)
        /\ UNCHANGED <<lengths2009, lengths2010, testing, recs, segments, segments_hier, data,
                   vals, testing_csv, length2009, length2010, index_cache, normal_vals>>

NextHier == Loc \/ FrameLoc

SpecHier == InitHier /\ [][NextHier]_vars

\* The selections tried on the levels: everything on each, or one value of
\* mmsi, a range of years, a list of two transits.
Selections ==
    <<{slice_all} \cup {scalar(v) : v \in LevelValues[1]},
      {slice_all} \cup {slice(a, b) : a, b \in LevelValues[2]},
      {slice_all} \cup {list(s) : s \in {t \in SUBSET LevelValues[3] : Cardinality(t) = 2}}>>

\* segments_hier.loc[pd.IndexSlice[:, :, 2009:2010, [1,2]], 'seg_length']
LocSlice ==
    \E k1 \in Selections[1], k2 \in Selections[2], k3 \in Selections[3] :
        /\ cell' = Cell("loc_slice", <<k1, k2, k3>>)
        /\ out' = loc_slice(segments_hier, <<k1, k2, k3>>, 4)
        /\ UNCHANGED <<lengths2009, lengths2010, testing, recs, segments, segments_hier, data,
                   vals, testing_csv, length2009, length2010, index_cache, normal_vals>>

NextSlice == LocSlice

SpecSlice == InitHier /\ [][NextSlice]_vars

\* segments_hier.swaplevel('mmsi', 'name')
SwapLevel ==
    \E i, j \in Range(segments_hier.names) :
        /\ cell' = Cell("swaplevel", <<i, j>>)
        /\ out' = swaplevel(segments_hier, i, j)
        /\ UNCHANGED <<lengths2009, lengths2010, testing, recs, segments, segments_hier, data,
                   vals, testing_csv, length2009, length2010, index_cache, normal_vals>>

\* segments_hier.swaplevel('mmsi', 'name').loc['Sentinel']
SwapLevelLoc ==
    \E i, j \in Range(segments_hier.names) :
        \E v \in LevelValues[swaplevel(segments_hier, i, j).names[1]] :
            /\ cell' = Cell("swaplevel_loc", <<i, j, <<v>>>>)
            /\ out' = loc(swaplevel(segments_hier, i, j), <<v>>)
            /\ UNCHANGED <<lengths2009, lengths2010, testing, recs, segments, segments_hier, data,
                   vals, testing_csv, length2009, length2010, index_cache, normal_vals>>

NextSwap == SwapLevel \/ SwapLevelLoc

SpecSwap == InitHier /\ [][NextSwap]_vars

(***************************************************************************)
(* Assignment of a column.                                                 *)
(***************************************************************************)
Months == <<"Jan", "Feb", "Mar", "Apr", "May", "Jun", "Jul", "Aug">>

\* The table data of r rows under the default index and c columns 1..c of
\* numbers.
DataTable(r, c) ==
    DataFrame(RangeIndex(r), [j \in 1..c |-> j],
              [j \in 1..c |-> [i \in 1..r |-> Num(10 * j + i)]])

\* DataFrame._ensure_valid_index(value): a table without rows takes the
\* default index of a list-like value, its columns filled with NaN.
ensure_valid_index(df, value) ==
    IF Len(df.index) = 0
    THEN DataFrame(RangeIndex(Len(value)), df.columns,
                   [j \in 1..Len(df.columns) |-> [i \in 1..Len(value) |-> NaN]])
    ELSE df

\* The column key of the table becomes the values given: in place when the
\* table has the column, as a new last column otherwise.
set_item(df, key, value) ==
    IF key \in Range(df.columns)
    THEN [df EXCEPT !.data[get_loc(df.columns, key)] = value]
    ELSE DataFrame(df.index, Append(df.columns, key), Append(df.data, value))

InitData ==
    /\ lengths2009 = Series(<<>>, <<>>)
    /\ lengths2010 = Series(<<>>, <<>>)
    /\ testing = EmptyFrame
    /\ recs = EmptyFrame
    /\ segments = EmptyFrame
    /\ segments_hier = EmptyFrame
    /\ \E r \in 0..MaxRows, c \in 0..MaxCols : data = DataTable(r, c)
    /\ vals = Series(<<>>, <<>>)
    /\ testing_csv = <<>>
    /\ length2009 = Series(<<>>, <<>>)
    /\ length2010 = Series(<<>>, <<>>)
    /\ index_cache = <<>>
    /\ normal_vals = EmptyFrame
    /\ cell = Cell("start", <<>>)
    /\ out = EmptyFrame

\* An assignment that, given a list of the wrong length, raises after it
\* has stored the part of the list that fits.
SetItemListPartial ==
    \E key \in {1, MaxCols + 1}, n \in 0..(MaxRows + 1) :
        LET value == [i \in 1..n |-> Text(Months[i])]
            fitted == [i \in 1..Len(data.index) |-> IF i <= n THEN value[i] ELSE NaN]
            valid == ensure_valid_index(data, value)
        IN  /\ cell' = Cell("setitem_list", <<key, value>>)
            /\ IF Len(value) # Len(valid.index)
               THEN data' = set_item(data, key, fitted) /\ out' = Exception("ValueError")
               ELSE data' = set_item(valid, key, value) /\ out' = EmptyFrame
            /\ UNCHANGED <<lengths2009, lengths2010, testing, recs, segments, segments_hier,
                   vals, testing_csv, length2009, length2010, index_cache, normal_vals>>

\* month = ['Jan', 'Feb', 'Mar', 'Apr']; data['month'] = month: a list of any
\* length.  A length other than that of the index raises ValueError before
\* anything is stored.
SetItemList ==
    \E key \in {1, MaxCols + 1}, n \in 0..(MaxRows + 1) :
        LET value == [i \in 1..n |-> Text(Months[i])]
            valid == ensure_valid_index(data, value)
        IN  /\ cell' = Cell("setitem_list", <<key, value>>)
            /\ IF Len(value) # Len(valid.index)
               THEN data' = data /\ out' = Exception("ValueError")
               ELSE data' = set_item(valid, key, value) /\ out' = EmptyFrame
            /\ UNCHANGED <<lengths2009, lengths2010, testing, recs, segments, segments_hier,
                   vals, testing_csv, length2009, length2010, index_cache, normal_vals>>

\* data['month'] = ['Jan']*len(data); data
SetItemRepeat ==
    \E key \in {1, MaxCols + 1} :
        LET value == [i \in 1..Len(data.index) |-> Text("Jan")]
        IN  /\ cell' = Cell("setitem_repeat", <<key, value>>)
            /\ data' = set_item(ensure_valid_index(data, value), key, value)
            /\ out' = data'
            /\ UNCHANGED <<lengths2009, lengths2010, testing, recs, segments, segments_hier,
                   vals, testing_csv, length2009, length2010, index_cache, normal_vals>>

NextData == SetItemList \/ SetItemRepeat

SpecData == InitData /\ [][NextData]_vars

(***************************************************************************)
(* Alignment arithmetic of two Series (SpecAlign).                         *)
(***************************************************************************)
\* The value a Series of unique labels holds at a label it has.
ValueAt(s, l) == s.values[CHOOSE i \in 1..Len(s.index) : s.index[i] = l]

Labels(s) == Range(s.index)

HasNoNaN(s) == \A i \in 1..Len(s.values) : notnull(s.values[i])

\* ix holds exactly the labels of a and of b, each once, in ascending order.
IsSortedUnion(ix, a, b) ==
    /\ Range(ix) = Range(a) \cup Range(b)
    /\ \A i, j \in 1..Len(ix) : i < j => ix[i] < ix[j]

\* C1: in A (+) B of two Series of unique labels, every label of the result
\* is a label of A or of B; the value at a label of both is A[l] (+) B[l],
\* the value at a label of exactly one of them is Missing.
C1_AlignValues ==
    cell.name = "arith" =>
        /\ Len(out.values) = Len(out.index)
        /\ Labels(out) = Labels(lengths2009) \cup Labels(lengths2010)
        /\ \A i \in 1..Len(out.index) :
              LET l == out.index[i]
              IN  IF l \in Labels(lengths2009) /\ l \in Labels(lengths2010)
                  THEN out.values[i] =
                         na_op(cell.args[1], ValueAt(lengths2009, l), ValueAt(lengths2010, l))
                  ELSE out.values[i] = NaN
        /\ (Labels(lengths2009) \cap Labels(lengths2010) = {}
              => \A i \in 1..Len(out.values) : out.values[i] = NaN)

\* C1 witness: a sum over a shared label with numbers on both sides, next to
\* a label only one side has.
C1_Witness ==
    /\ cell = Cell("arith", <<"add">>)
    /\ \E i \in 1..Len(out.index) :
          /\ out.index[i] \in Labels(lengths2009) \cap Labels(lengths2010)
          /\ notnull(out.values[i])
    /\ \E i \in 1..Len(out.index) :
          out.index[i] \notin Labels(lengths2009) \cap Labels(lengths2010)

\* C2 as stated: the index of A (+) B is the sorted union of the labels of A
\* and B, for every input order.
C2_SortedUnionAlways ==
    cell.name = "arith" => IsSortedUnion(out.index, lengths2009.index, lengths2010.index)

\* C2 amended: the index of A (+) B is the sorted union of the labels of A
\* and B when the two indexes differ and neither is empty; when the indexes
\* are equal the result keeps that index in its input order, and when one is
\* empty the result keeps the other index in its input order.
C2_SortedUnionUnlessEqual ==
    cell.name = "arith" =>
        IF lengths2009.index = lengths2010.index THEN out.index = lengths2009.index
        ELSE IF Len(lengths2010.index) = 0 THEN out.index = lengths2009.index
        ELSE IF Len(lengths2009.index) = 0 THEN out.index = lengths2010.index
        ELSE IsSortedUnion(out.index, lengths2009.index, lengths2010.index)

\* C2 witness: two different non-empty indexes, the left one in descending
\* order, have been added.
C2_Witness ==
    /\ cell.name = "arith"
    /\ lengths2009.index # lengths2010.index
    /\ Len(lengths2009.index) = 2 /\ Len(lengths2010.index) > 0
    /\ lengths2009.index[1] > lengths2009.index[2]
    /\ Labels(lengths2010) \ Labels(lengths2009) # {}

\* C3: when neither Series holds a Missing value, A.add(B, fill_value=0)
\* holds A's value at a label only A has, B's value at a label only B has,
\* A + B at a shared label, and no Missing value at all.
C3_AddFillValue ==
    (cell = Cell("flex", <<"add">>) /\ HasNoNaN(lengths2009) /\ HasNoNaN(lengths2010)) =>
        /\ Labels(out) = Labels(lengths2009) \cup Labels(lengths2010)
        /\ HasNoNaN(out)
        /\ \A i \in 1..Len(out.index) :
              LET l == out.index[i]
              IN  out.values[i] =
                    IF l \notin Labels(lengths2010) THEN ValueAt(lengths2009, l)
                    ELSE IF l \notin Labels(lengths2009) THEN ValueAt(lengths2010, l)
                    ELSE Num(ValueAt(lengths2009, l)[1] + ValueAt(lengths2010, l)[1])

\* C3 witness: add with fill_value=0 over a label only A has, a label only
\* B has and a shared label, no input value Missing.
C3_Witness ==
    /\ cell = Cell("flex", <<"add">>)
    /\ HasNoNaN(lengths2009) /\ HasNoNaN(lengths2010)
    /\ Labels(lengths2009) \ Labels(lengths2010) # {}
    /\ Labels(lengths2010) \ Labels(lengths2009) # {}
    /\ Labels(lengths2009) \cap Labels(lengths2010) # {}

\* The value a Series of unique labels holds at a label, NaN at a label it
\* does not have.
ValueOrNaN(s, l) == IF l \in Labels(s) THEN ValueAt(s, l) ELSE NaN

\* C25 as stated: in A.add(B, fill_value=0) the result is Missing at every
\* label that a side has with a Missing value.
C25_FillKeepsMissing ==
    cell = Cell("flex", <<"add">>) =>
        \A i \in 1..Len(out.index) :
            LET l == out.index[i]
            IN  (\/ l \in Labels(lengths2009) /\ isnull(ValueAt(lengths2009, l))
                 \/ l \in Labels(lengths2010) /\ isnull(ValueAt(lengths2010, l)))
                    => out.values[i] = NaN

\* C25 amended: in A.add(B, fill_value=0) a side that has no value at a
\* label, because it lacks the label or because its value there is Missing,
\* counts as 0 when the other side has a value; the result is Missing
\* exactly at the labels where neither side has a value.
C25_FillOneSided ==
    cell = Cell("flex", <<"add">>) =>
        /\ Labels(out) = Labels(lengths2009) \cup Labels(lengths2010)
        /\ \A i \in 1..Len(out.index) :
              LET a == ValueOrNaN(lengths2009, out.index[i])
                  b == ValueOrNaN(lengths2010, out.index[i])
              IN  out.values[i] =
                    IF isnull(a) /\ isnull(b) THEN NaN
                    ELSE IF isnull(a) THEN b
                    ELSE IF isnull(b) THEN a
                    ELSE Num(a[1] + b[1])

\* C25 witness: a label both sides have, Missing in A and a number in B; the
\* result holds B's number there.
C25_Witness ==
    /\ cell = Cell("flex", <<"add">>)
    /\ \E i \in 1..Len(out.index) :
          LET l == out.index[i]
          IN  /\ l \in Labels(lengths2009) /\ l \in Labels(lengths2010)
              /\ isnull(ValueAt(lengths2009, l))
              /\ notnull(ValueAt(lengths2010, l))
              /\ out.values[i] = ValueAt(lengths2010, l)

Max(S) == CHOOSE x \in S : \A y \in S : x >= y

\* The k-th smallest member of a set of positions.
Kth(S, k) == CHOOSE i \in S : Cardinality({x \in S : x <= i}) = k

\* res holds exactly the rows of df at the positions in Keep, with their
\* labels and values, in their order in df.
IsRowsOf(res, df, Keep) ==
    /\ res.columns = df.columns
    /\ Len(res.data) = Len(df.columns)
    /\ Len(res.index) = Cardinality(Keep)
    /\ \A k \in 1..Len(res.index) :
          /\ res.index[k] = df.index[Kth(Keep, k)]
          /\ \A j \in 1..Len(df.columns) :
                /\ Len(res.data[j]) = Len(res.index)
                /\ res.data[j][k] = df.data[j][Kth(Keep, k)]

NonMissing(df, i) == {j \in 1..Len(df.columns) : df.data[j][i] # NaN}

\* C5: dropna(how='any') keeps exactly the rows with no Missing cell,
\* dropna(how='all') exactly the rows with a non-Missing cell, and
\* dropna(thresh=k) exactly the rows with at least k non-Missing cells
\* whatever how is; the kept rows keep labels, values and relative order.
C5_Dropna ==
    cell.name = "dropna" =>
        LET how    == cell.args[1]
            thresh == cell.args[2]
            Keep   == {i \in 1..Len(testing.index) :
                          IF thresh # NoThresh
                          THEN Cardinality(NonMissing(testing, i)) >= thresh
                          ELSE IF how = "any"
                          THEN \A j \in 1..Len(testing.columns) : testing.data[j][i] # NaN
                          ELSE \E j \in 1..Len(testing.columns) : testing.data[j][i] # NaN}
        IN  IsRowsOf(out, testing, Keep)

\* C5 witness: dropna(how='any', thresh=1) has kept a row that holds a
\* Missing cell and dropped another row.
C5_Witness ==
    /\ cell = Cell("dropna", <<"any", 1>>)
    /\ Len(out.index) > 0 /\ Len(out.index) < Len(testing.index)
    /\ \E k \in 1..Len(out.index) : \E j \in 1..Len(out.columns) :
          out.data[j][k] = NaN

SameLabels(res, df) ==
    /\ res.index = df.index
    /\ res.columns = df.columns
    /\ Len(res.data) = Len(df.columns)
    /\ \A j \in 1..Len(df.columns) : Len(res.data[j]) = Len(df.index)

\* C6: fillna(scalar) replaces every Missing cell by the scalar and leaves
\* the other cells unchanged; fillna(dict) replaces the Missing cells of
\* each column the dict names by that column's scalar and leaves the Missing
\* cells of the other columns Missing.
C6_FillnaValue ==
    /\ cell.name = "fillna" =>
          /\ SameLabels(out, testing)
          /\ \A j \in 1..Len(testing.columns) : \A i \in 1..Len(testing.index) :
                out.data[j][i] = IF testing.data[j][i] = NaN THEN cell.args[1]
                                 ELSE testing.data[j][i]
    /\ cell.name = "fillna_dict" =>
          /\ SameLabels(out, testing)
          /\ \A j \in 1..Len(testing.columns) : \A i \in 1..Len(testing.index) :
                LET c == testing.columns[j]
                IN  out.data[j][i] =
                       IF testing.data[j][i] # NaN THEN testing.data[j][i]
                       ELSE IF c \in DOMAIN cell.args[1] THEN cell.args[1][c]
                       ELSE NaN

\* C6 witness: fillna with a dict naming one of two columns, both of which
\* hold a Missing cell.
C6_Witness ==
    /\ cell.name = "fillna_dict"
    /\ Len(testing.columns) = 2
    /\ Cardinality(DOMAIN cell.args[1]) = 1
    /\ \A j \in 1..2 : \E i \in 1..Len(testing.index) : testing.data[j][i] = NaN
    /\ \E j \in 1..2 : \A i \in 1..Len(out.index) : out.data[j][i] # NaN

\* C7: fillna(method='ffill') gives each Missing cell the value of the
\* nearest non-Missing cell above it in its column, and leaves it Missing
\* when there is none; fillna(method='bfill') does the same with the nearest
\* non-Missing cell below it.
C7_FillnaMethod ==
    cell.name = "fillna_method" =>
        /\ SameLabels(out, testing)
        /\ \A j \in 1..Len(testing.columns) : \A i \in 1..Len(testing.index) :
              LET col    == testing.data[j]
                  Before == {k \in 1..(i - 1) : col[k] # NaN}
                  After  == {k \in (i + 1)..Len(col) : col[k] # NaN}
              IN  out.data[j][i] =
                    IF col[i] # NaN THEN col[i]
                    ELSE IF cell.args[1] = "ffill"
                    THEN (IF Before = {} THEN NaN ELSE col[Max(Before)])
                    ELSE (IF After = {} THEN NaN ELSE col[Min(After)])

\* C7 witness: a forward fill over a column that starts with a Missing cell
\* and over a column whose third cell is Missing below two numbers.
C7_Witness ==
    /\ cell = Cell("fillna_method", <<"ffill">>)
    /\ Len(testing.index) >= 3
    /\ \E j \in 1..Len(testing.columns) :
          /\ testing.data[j][1] = NaN /\ testing.data[j][2] # NaN
          /\ out.data[j][1] = NaN
    /\ \E j \in 1..Len(testing.columns) :
          /\ testing.data[j][1] # NaN /\ testing.data[j][2] # NaN
          /\ testing.data[j][3] = NaN
          /\ out.data[j][3] = testing.data[j][2]

(***************************************************************************)
(* Data summarization (SpecReduce).                                        *)
(***************************************************************************)
RECURSIVE Total(_)
\* The total of a sequence of numbers.
Total(nums) == IF Len(nums) = 0 THEN 0 ELSE nums[1][1] + Total(Tail(nums))

RECURSIVE Concat(_)
\* The texts of a sequence joined in order.
Concat(texts) == IF Len(texts) = 0 THEN "" ELSE texts[1][2] \o Concat(Tail(texts))

\* v is the sum of the numbers.
IsSumOf(v, nums) == v = Num(Total(nums))

\* v is the mean of the numbers: Missing when there is none.
IsMeanOf(v, nums) ==
    IF Len(nums) = 0 THEN v = NaN
    ELSE /\ Len(v) = 3
         /\ v[3] > 0
         /\ v[2] * Len(nums) = Total(nums) * v[3]

IsReductionOf(name, v, nums) ==
    IF name = "sum" THEN IsSumOf(v, nums) ELSE IsMeanOf(v, nums)

NumericColumns(df) ==
    {j \in 1..Len(df.columns) : \A i \in 1..Len(df.index) : Len(df.data[j][i]) < 2}

\* The entry of a reduction over the table for the column at position j.
EntryFor(res, df, j) == res.values[CHOOSE k \in 1..Len(res.index) : res.index[k] = df.columns[j]]

\* C9: with skipna (the default) the sum or mean of a numeric column is the
\* sum or mean of its non-Missing entries; with skipna=False it is Missing
\* when the column holds a Missing entry and the plain sum or mean of the
\* column otherwise.
C9_SkipnaReduction ==
    cell.name \in {"sum", "mean"} =>
        \A j \in NumericColumns(testing) :
            LET col     == testing.data[j]
                present == SelectSeq(col, LAMBDA x : x # NaN)
                v       == EntryFor(out, testing, j)
            IN  /\ testing.columns[j] \in Range(out.index)
                /\ IF cell.args[1] THEN IsReductionOf(cell.name, v, present)
                   ELSE IF Len(present) < Len(col) THEN v = NaN
                   ELSE IsReductionOf(cell.name, v, col)

\* C9 witness: a mean with skipna over a column that holds a Missing entry
\* and two numbers.
C9_Witness ==
    /\ cell = Cell("mean", <<TRUE>>)
    /\ \E j \in NumericColumns(testing) :
          /\ Cardinality({i \in 1..Len(testing.index) : testing.data[j][i] = NaN}) = 1
          /\ Cardinality({i \in 1..Len(testing.index) : testing.data[j][i] # NaN}) = 2
          /\ EntryFor(out, testing, j) # NaN

Derivations ==
    {"fillna", "fillna_dict", "fillna_method", "dropna", "drop", "filter",
     "arith", "flex", "combine_frame"}

\* C8: a step of fillna, dropna, drop, filtering or alignment arithmetic
\* leaves the labels and values of every existing container as they were;
\* only the assignment to an element changes an existing container.
C8_SourceUnchanged ==
    [][/\ cell'.name \in Derivations =>
            /\ testing' = testing /\ recs' = recs
            /\ segments' = segments /\ segments_hier' = segments_hier /\ data' = data
            /\ lengths2009' = lengths2009 /\ lengths2010' = lengths2010
       /\ testing' # testing => cell'.name = "setitem"]_vars

\* C8 witness: after an assignment made a cell of the table Missing,
\* fillna(0) has returned a table without a Missing cell while the table
\* itself still holds the Missing cell.
C8_Witness ==
    /\ cell.name = "fillna"
    /\ \E j \in 1..Len(testing.columns) : \E i \in 1..Len(testing.index) :
          testing.data[j][i] = NaN /\ out.data[j][i] = Num(0)

(***************************************************************************)
(* Ranking (SpecRank).                                                     *)
(***************************************************************************)
\* The number of values of the sequence below the value at position p.
Below(values, p) == Cardinality({q \in 1..Len(values) : values[q][1] < values[p][1]})

\* The positions of the sequence holding the value at position p.
Tied(values, p) == {q \in 1..Len(values) : values[q] = values[p]}

\* C11: rank() with the default tie-break returns a Series over the index of
\* its input, in the same order, whose value at each position is the mean of
\* the 1-based sorted positions that the elements equal to the input's
\* value there occupy; [100,100,100] ranks to [2.0,2.0,2.0].
C11_RankAverage ==
    /\ (cell.name = "rank" /\ cell.args[1] = "average") =>
          LET values == column(segments, 1).values
          IN  /\ out.index = segments.index
              /\ Len(out.values) = Len(values)
              /\ \A p \in 1..Len(values) :
                    out.values[p] =
                        Ratio(2 * Below(values, p) + Cardinality(Tied(values, p)) + 1, 2)
    /\ cell.name = "rank_literal" =>
          /\ out.index = <<0, 1, 2>>
          /\ out.values = <<Ratio(2, 1), Ratio(2, 1), Ratio(2, 1)>>

\* C11 witness: the default rank of three values, two of them equal and the
\* lowest, has given both the rank 1.5 and the third the rank 3.
C11_Witness ==
    /\ cell.name = "rank" /\ cell.args[1] = "average"
    /\ Len(out.values) = 3
    /\ \E p, q \in 1..3 : p # q /\ out.values[p] = Ratio(3, 2) /\ out.values[q] = Ratio(3, 2)
    /\ \E p \in 1..3 : out.values[p] = Ratio(3, 1)

\* C12: rank(method='first') gives the elements of a tied group distinct
\* consecutive ranks in input order, so that the ranks are a permutation of
\* 1..n; method='min' gives every member of a tied group the lowest rank of
\* the group and method='max' the highest.  The sorted ranks of
\* method='first' are 1..n, each under the label of its element.
C12_RankTieBreaks ==
    /\ (cell.name = "rank" /\ cell.args[1] # "average") =>
          LET values == column(segments, 1).values
              n == Len(values)
          IN  /\ out.index = segments.index
              /\ Len(out.values) = n
              /\ cell.args[1] = "first" =>
                    /\ \A p \in 1..n :
                          out.values[p] =
                              Ratio(Below(values, p)
                                    + Cardinality({q \in Tied(values, p) : q <= p}), 1)
                    /\ {out.values[p] : p \in 1..n} = {Ratio(k, 1) : k \in 1..n}
              /\ cell.args[1] = "min" =>
                    \A p \in 1..n : out.values[p] = Ratio(Below(values, p) + 1, 1)
              /\ cell.args[1] = "max" =>
                    \A p \in 1..n :
                        out.values[p] =
                            Ratio(Below(values, p) + Cardinality(Tied(values, p)), 1)
    /\ cell.name = "rank_sorted" =>
          LET values == column(segments, 1).values
              n == Len(values)
          IN  /\ out.values = [k \in 1..n |-> Ratio(k, 1)]
              /\ \A k \in 1..n :
                    LET p == out.index[k] + 1
                    IN  k = Below(values, p) + Cardinality({q \in Tied(values, p) : q <= p})

\* C12 witness: method='first' has ranked three equal values 1, 2, 3 in
\* input order.
C12_Witness ==
    /\ cell.name = "rank" /\ cell.args[1] = "first"
    /\ Len(out.values) = 3
    /\ Cardinality(Range(column(segments, 1).values)) = 1
    /\ out.values = <<Ratio(1, 1), Ratio(2, 1), Ratio(3, 1)>>

(***************************************************************************)
(* Sorting (SpecSort, SpecSortValues).                                     *)
(***************************************************************************)
\* The labels of the axis sorted by the last cell, before and after.
AxisIn == IF cell.args[1] = 0 THEN segments.index ELSE segments.columns

AxisOut == IF cell.args[1] = 0 THEN out.index ELSE out.columns

\* Entry k of the sorted axis of the result is entry p[k] of the input, with
\* its label and its data.
IsEntryOf(k, pk) ==
    IF cell.args[1] = 0
    THEN /\ out.index[k] = segments.index[pk]
         /\ \A j \in 1..Len(segments.columns) : out.data[j][k] = segments.data[j][pk]
    ELSE /\ out.columns[k] = segments.columns[pk]
         /\ out.data[k] = segments.data[pk]

\* The result of sort_index is the input with its entries along the axis
\* rearranged by p, in label order.
IsSortedBy(p) ==
    /\ Len(AxisOut) = Len(AxisIn)
    /\ IF cell.args[1] = 0
       THEN out.columns = segments.columns
       ELSE out.index = segments.index
    /\ \A k \in 1..Len(AxisIn) : IsEntryOf(k, p[k])
    /\ \A k \in 1..(Len(AxisOut) - 1) :
          IF cell.args[2] THEN AxisOut[k] <= AxisOut[k + 1] ELSE AxisOut[k] >= AxisOut[k + 1]

\* p keeps entries of equal label in their input order.
IsStable(p) ==
    \A k, l \in 1..Len(AxisIn) : (k < l /\ AxisIn[p[k]] = AxisIn[p[l]]) => p[k] < p[l]

KeyOut(h, k) == column(out, cell.args[1][h]).values[k][1]

\* C14: sort_values with several keys returns the rows in composite order:
\* two rows that agree on the keys before key h come in the order of key h,
\* in that key's own direction; the rows of the result are the rows of the
\* input, each under its label.
C14_SortValuesComposite ==
    cell.name = "sort_values" =>
        LET by == cell.args[1]
            ascending == cell.args[2]
            n == Len(segments.index)
        IN  /\ out.columns = segments.columns
            /\ Len(out.index) = n
            /\ Range(out.index) = Range(segments.index)
            /\ \A k \in 1..n : \A j \in 1..Len(segments.columns) :
                  out.data[j][k] = segments.data[j][out.index[k] + 1]
            /\ \A k, l \in 1..n : \A h \in 1..Len(by) :
                  (k < l /\ \A g \in 1..(h - 1) : KeyOut(g, k) = KeyOut(g, l)) =>
                      IF ascending[h] THEN KeyOut(h, k) <= KeyOut(h, l)
                                      ELSE KeyOut(h, k) >= KeyOut(h, l)

\* C14 witness: sort_values by max_sog descending, then min_sog ascending,
\* has put the two of three rows that are highest on max_sog first, the
\* one of lower min_sog before the other, reversing the input order.
C14_Witness ==
    /\ cell.name = "sort_values"
    /\ cell.args = <<(<<2, 3>>), (<<FALSE, TRUE>>)>>
    /\ segments.data[2] = <<Num(1), Num(2), Num(2)>>
    /\ segments.data[3] = <<Num(1), Num(2), Num(1)>>
    /\ out.index = <<2, 1, 0>>

(***************************************************************************)
(* Hierarchical indexing (SpecHier, SpecSlice, SpecSwap).                  *)
(***************************************************************************)
IsException(x) == DOMAIN x = {"exception"}

IsSeries(x) == DOMAIN x = {"index", "values"}

IsFrame(x) == "data" \in DOMAIN x

\* The rows of the table whose label agrees with the key on every level the
\* key gives.
RowsAt(df, key) ==
    {r \in 1..Len(df.index) : \A k \in 1..Len(key) : df.index[r][k] = key[k]}

\* C15: on a table whose composite index is unique, the lookup of a complete
\* key that is present returns one row, as a Series over the columns, and it
\* is the row whose label equals the key level by level.
C15_FullKeyLookup ==
    (/\ cell.name = "loc"
     /\ Len(cell.args[1]) = Len(segments_hier.names)
     /\ is_unique(segments_hier.index)
     /\ RowsAt(segments_hier, cell.args[1]) # {}) =>
        /\ IsSeries(out)
        /\ \E r \in 1..Len(segments_hier.index) :
              /\ \A k \in 1..Len(segments_hier.names) :
                    segments_hier.index[r][k] = cell.args[1][k]
              /\ out.index = segments_hier.columns
              /\ \A j \in 1..Len(segments_hier.columns) :
                    out.values[j] = segments_hier.data[j][r]

\* C15 witness: the lookup of a complete key in a table of two rows that
\* differ on their last level alone has returned the second row.
C15_Witness ==
    /\ cell.name = "loc"
    /\ Len(cell.args[1]) = 3
    /\ Len(segments_hier.index) = 2
    /\ is_unique(segments_hier.index)
    /\ segments_hier.index[1][1] = segments_hier.index[2][1]
    /\ segments_hier.index[1][2] = segments_hier.index[2][2]
    /\ cell.args[1] = segments_hier.index[2]
    /\ IsSeries(out)
    /\ out.values = <<segments_hier.data[1][2]>>

\* segments_hier.loc[key] with a prefix of the key that some label starts
\* with returns exactly the rows whose label starts with it, in their order,
\* with their data, under the levels after the prefix.
PartialKeyRows ==
    (/\ cell.name = "loc"
     /\ Len(cell.args[1]) < Len(segments_hier.names)
     /\ RowsAt(segments_hier, cell.args[1]) # {}) =>
        LET key == cell.args[1]
            rows == RowsAt(segments_hier, key)
        IN  /\ IsFrame(out)
            /\ out.columns = segments_hier.columns
            /\ out.names = SubSeq(segments_hier.names, Len(key) + 1, Len(segments_hier.names))
            /\ Len(out.index) = Cardinality(rows)
            /\ \A k \in 1..Len(out.index) :
                  LET r == Kth(rows, k)
                  IN  /\ IF Len(key) = 2
                         THEN out.index[k] = segments_hier.index[r][3]
                         ELSE out.index[k] =
                                  <<segments_hier.index[r][2], segments_hier.index[r][3]>>
                      /\ \A j \in 1..Len(out.columns) :
                            out.data[j][k] = segments_hier.data[j][r]

\* frame.loc[key1, state] with a first level of each axis returns the cells
\* of exactly the rows under key1 and the columns under state, rows and
\* columns labelled by their second level.
PartialKeyBothAxes ==
    (/\ cell.name = "frame_loc"
     /\ \E r \in 1..4 : frame.index[r][1] = cell.args[1]
     /\ \E c \in 1..3 : frame.columns[c][1] = cell.args[2]) =>
        LET rows == {r \in 1..4 : frame.index[r][1] = cell.args[1]}
            cols == {c \in 1..3 : frame.columns[c][1] = cell.args[2]}
        IN  /\ IsFrame(out)
            /\ out.names = <<"key2">> /\ out.column_names = <<"color">>
            /\ out.index = [k \in 1..Cardinality(rows) |-> frame.index[Kth(rows, k)][2]]
            /\ out.columns = [k \in 1..Cardinality(cols) |-> frame.columns[Kth(cols, k)][2]]
            /\ \A k \in 1..Cardinality(rows), l \in 1..Cardinality(cols) :
                  out.data[l][k] = frame.data[Kth(cols, l)][Kth(rows, k)]

\* C16: the lookup of a prefix of the key that some label starts with
\* returns exactly the rows whose label starts with it, in their order, with
\* their data; the index of the result holds, for each of them, the levels
\* after the prefix (a single level left is a plain label) and the names of
\* those levels.  The same holds on the column axis of frame.
C16_PartialKeyLookup == PartialKeyRows /\ PartialKeyBothAxes

\* C16 witness: the lookup of a value of the first level has returned one
\* of the two rows of the table under its two inner levels.
C16_Witness ==
    /\ cell.name = "loc"
    /\ Len(cell.args[1]) = 1
    /\ Len(segments_hier.index) = 2
    /\ segments_hier.index[1][1] # segments_hier.index[2][1]
    /\ IsFrame(out)
    /\ Len(out.index) = 1
    /\ Len(out.index[1]) = 2

\* The level value x meets the selection k.
Meets(k, x) ==
    /\ k.kind = "scalar" => x = k.start
    /\ k.kind = "list" => x \in k.values
    /\ k.kind = "slice" => (x >= k.start /\ x <= k.stop)

\* C17: a selection with one criterion per level returns the column over
\* exactly the rows whose label meets the criterion of every level, in their
\* order and under their labels; a level given ':' excludes no row.  The
\* selection raises KeyError only when a criterion is a single value that no
\* label holds, and then no row meets every criterion.
C17_SliceSelection ==
    cell.name = "loc_slice" =>
        LET n == Len(segments_hier.index)
            rows == {r \in 1..n : \A k \in 1..3 : Meets(cell.args[k], segments_hier.index[r][k])}
        IN  /\ IsException(out) =>
                  /\ rows = {}
                  /\ \E k \in 1..3 : cell.args[k].kind = "scalar"
            /\ ~IsException(out) =>
                  /\ IsSeries(out)
                  /\ Len(out.index) = Cardinality(rows)
                  /\ \A k \in 1..Len(out.index) :
                        /\ out.index[k] = segments_hier.index[Kth(rows, k)]
                        /\ out.values[k] = segments_hier.data[1][Kth(rows, k)]
                  /\ (\A k \in 1..3 : cell.args[k].kind = "all") => Len(out.index) = n

\* C17 witness: a selection with ':' on the first level, a range on the
\* second and a list on the third has selected one of two rows, which
\* differ on the third level alone.
C17_Witness ==
    /\ cell.name = "loc_slice"
    /\ cell.args[1].kind = "all" /\ cell.args[2].kind = "slice" /\ cell.args[3].kind = "list"
    /\ Len(segments_hier.index) = 2
    /\ segments_hier.index[1][2] = segments_hier.index[2][2]
    /\ IsSeries(out)
    /\ out.index = <<segments_hier.index[2]>>

\* The key with its components at levels a and b exchanged.
Exchanged(key, a, b) ==
    [k \in 1..Len(key) |-> IF k = a THEN key[b] ELSE IF k = b THEN key[a] ELSE key[k]]

\* Two results of a lookup hold the same row data.
SameRowData(x, y) ==
    IF IsFrame(x) /\ IsFrame(y)
    THEN x.columns = y.columns /\ x.data = y.data
    ELSE x = y

\* C18: swaplevel keeps the rows, their order and their data, and exchanges
\* the two levels in every label; the lookup of a complete key with the two
\* components exchanged in the swapped table returns the row data that the
\* lookup of the key returns in the table; swapping the pair again gives the
\* index of the table back.
C18_SwapLevel ==
    cell.name = "swaplevel" =>
        LET a == get_loc(segments_hier.names, cell.args[1])
            b == get_loc(segments_hier.names, cell.args[2])
        IN  /\ out.columns = segments_hier.columns
            /\ out.data = segments_hier.data
            /\ Len(out.index) = Len(segments_hier.index)
            /\ \A r \in 1..Len(out.index) :
                  out.index[r] = Exchanged(segments_hier.index[r], a, b)
            /\ \A key \in Keys :
                  SameRowData(loc(out, Exchanged(key, a, b)), loc(segments_hier, key))
            /\ swaplevel(out, cell.args[1], cell.args[2]).index = segments_hier.index
            /\ swaplevel(out, cell.args[1], cell.args[2]).names = segments_hier.names

\* C18 witness: the first and the last level have changed places in a table
\* of two rows whose labels differ on both.
C18_Witness ==
    /\ cell.name = "swaplevel"
    /\ cell.args = <<1, 3>>
    /\ Len(segments_hier.index) = 2
    /\ segments_hier.index[1][1] # segments_hier.index[1][3]
    /\ segments_hier.index[2][1] # segments_hier.index[2][3]
    /\ segments_hier.index[1][1] # segments_hier.index[2][1]
    /\ out.index[1][1] = segments_hier.index[1][3]
    /\ out.index[2][3] = segments_hier.index[2][1]

\* C19: the lookup of a key that no label of the index starts with raises
\* KeyError, and returns neither a row of missing values nor an empty
\* table; a key that some label starts with raises nothing; the table is as
\* it was before the lookup.
C19_LookupMiss ==
    [][/\ cell'.name = "loc" =>
          /\ segments_hier' = segments_hier
          /\ segments' = segments
          /\ (RowsAt(segments_hier, cell'.args[1]) = {}) <=> (out' = Exception("KeyError"))
       /\ cell'.name = "frame_loc" =>
          /\ segments_hier' = segments_hier
          /\ ((\A r \in 1..4 : frame.index[r][1] # cell'.args[1])
               \/ (\A c \in 1..3 : frame.columns[c][1] # cell'.args[2]))
             <=> (out' = Exception("KeyError"))]_vars

\* C19 witness: the lookup of a complete key in a table that holds another
\* key with the same first two levels has raised KeyError.
C19_Witness ==
    /\ cell.name = "loc"
    /\ Len(cell.args[1]) = 3
    /\ \E r \in 1..Len(segments_hier.index) :
          /\ segments_hier.index[r][1] = cell.args[1][1]
          /\ segments_hier.index[r][2] = cell.args[1][2]
    /\ out = Exception("KeyError")

(***************************************************************************)
(* Assignment of a column (SpecData).                                      *)
(***************************************************************************)
\* The table after the step holds the value as its column key, and its
\* other columns, labels and values, as before.
Assigned(before, after, key, value) ==
    /\ after.index = before.index
    /\ Range(after.columns) = Range(before.columns) \cup {key}
    /\ \A j \in 1..Len(after.columns) :
          IF after.columns[j] = key
          THEN after.data[j] = value
          ELSE \E h \in 1..Len(before.columns) :
                  before.columns[h] = after.columns[j] /\ before.data[h] = after.data[j]

getattr(df, c) == [index |-> df.index, values |-> <<>>, base |-> c]

\* The values a Series reads: its own, or those of the column it views.
series_values(s, df) == IF s.base = 0 THEN s.values ELSE column(df, s.base).values

\* Series.copy(): the same labels over fresh memory holding the same values.
copy(s, df) == [index |-> s.index, values |-> series_values(s, df), base |-> 0]

InitView ==
    /\ lengths2009 = Series(<<>>, <<>>)
    /\ lengths2010 = Series(<<>>, <<>>)
    /\ testing = EmptyFrame
    /\ recs = EmptyFrame
    /\ segments = EmptyFrame
    /\ segments_hier = EmptyFrame
    /\ data = DataTable(2, 2)
    /\ vals = [index |-> <<>>, values |-> <<>>, base |-> 0]
    /\ testing_csv = <<>>
    /\ length2009 = Series(<<>>, <<>>)
    /\ length2010 = Series(<<>>, <<>>)
    /\ index_cache = <<>>
    /\ normal_vals = EmptyFrame
    /\ cell = Cell("start", <<>>)
    /\ out = EmptyFrame

\* vals = data.value
GetAttr ==
    \E c \in Range(data.columns) :
        /\ vals' = getattr(data, c)
        /\ cell' = Cell("getattr", <<c>>)
        /\ out' = EmptyFrame
        /\ UNCHANGED <<lengths2009, lengths2010, testing, recs, segments, segments_hier, data,
                       testing_csv, length2009, length2010, index_cache, normal_vals>>

\* vals = data.value.copy()
GetAttrCopy ==
    \E c \in Range(data.columns) :
        /\ vals' = copy(getattr(data, c), data)
        /\ cell' = Cell("copy", <<c>>)
        /\ out' = EmptyFrame
        /\ UNCHANGED <<lengths2009, lengths2010, testing, recs, segments, segments_hier, data,
                       testing_csv, length2009, length2010, index_cache, normal_vals>>

\* An assignment through vals that gives vals memory of its own before it
\* writes.
SeriesSetItemDetached ==
    \E label \in Range(vals.index), v \in {Num(0), Num(1000)} :
        /\ vals' = [copy(vals, data) EXCEPT !.values[get_loc(vals.index, label)] = v]
        /\ data' = data
        /\ cell' = Cell("series_setitem", <<label, v>>)
        /\ out' = EmptyFrame
        /\ UNCHANGED <<lengths2009, lengths2010, testing, recs, segments, segments_hier,
                       testing_csv, length2009, length2010, index_cache, normal_vals>>

\* vals[5] = 0, vals[5] = 1000, at a label that vals has: the value goes to
\* the memory vals reads.
SeriesSetItem ==
    \E label \in Range(vals.index), v \in {Num(0), Num(1000)} :
        /\ IF vals.base = 0
           THEN /\ vals' = [vals EXCEPT !.values[get_loc(vals.index, label)] = v]
                /\ data' = data
           ELSE /\ data' = setitem(data, get_loc(data.columns, vals.base),
                                   get_loc(data.index, label), v)
                /\ vals' = vals
        /\ cell' = Cell("series_setitem", <<label, v>>)
        /\ out' = EmptyFrame
        /\ UNCHANGED <<lengths2009, lengths2010, testing, recs, segments, segments_hier,
                       testing_csv, length2009, length2010, index_cache, normal_vals>>

\* An assignment to an element of the index that stores the label.
IndexSetItemStores ==
    \E target \in {"data", "vals"}, i \in 0..1, label \in {15} :
        /\ cell' = Cell("index_setitem", <<target, i, label>>)
        /\ out' = Exception("TypeError")
        /\ data' = IF target = "data" /\ i < Len(data.index)
                   THEN [data EXCEPT !.index[i + 1] = label] ELSE data
        /\ vals' = IF target = "vals" /\ i < Len(vals.index)
                   THEN [vals EXCEPT !.index[i + 1] = label] ELSE vals
        /\ UNCHANGED <<lengths2009, lengths2010, testing, recs, segments, segments_hier,
                       testing_csv, length2009, length2010, index_cache, normal_vals>>

\* data.index[0] = 15, and the same on the index of vals: Index.__setitem__
\* raises TypeError, whatever the position and the label.
IndexSetItem ==
    \E target \in {"data", "vals"}, i \in 0..1, label \in {15} :
        /\ cell' = Cell("index_setitem", <<target, i, label>>)
        /\ out' = Exception("TypeError")
        /\ UNCHANGED <<lengths2009, lengths2010, testing, recs, segments, segments_hier, data,
                       vals, testing_csv, length2009, length2010, index_cache, normal_vals>>

\* data
Display ==
    /\ cell' = Cell("display", <<>>)
    /\ out' = data
    /\ UNCHANGED <<lengths2009, lengths2010, testing, recs, segments, segments_hier, data,
                   vals, testing_csv, length2009, length2010, index_cache, normal_vals>>

NextView == GetAttr \/ GetAttrCopy \/ SeriesSetItem \/ IndexSetItem \/ Display

SpecView == InitView /\ [][NextView]_vars

(***************************************************************************)
(* The claims about the index, the selected column and its copy (SpecView).*)
(***************************************************************************)
\* C21: an assignment to an element of an index, that of the table or that
\* of a Series taken from it, raises TypeError and has no effect: the table
\* and the Series keep the labels, and everything else, they had.
C21_IndexImmutable ==
    [][cell'.name = "index_setitem" =>
          /\ out' = Exception("TypeError")
          /\ data'.index = data.index
          /\ vals'.index = vals.index
          /\ data' = data
          /\ vals' = vals]_vars

\* C21 witness: the assignment to the first element of the table's index has
\* raised while vals views a column of the table, and both carry the labels
\* 0, 1.
C21_Witness ==
    /\ cell.name = "index_setitem"
    /\ cell.args = <<"data", 0, 15>>
    /\ out = Exception("TypeError")
    /\ vals.base # 0
    /\ data.index = RangeIndex(2)
    /\ vals.index = RangeIndex(2)

\* C22: an assignment to an element of a Series selected from the table
\* shows in the table's column, and only at that label; an assignment to an
\* element of a copy leaves the table as it was; either way the Series reads
\* the value assigned.
C22_ViewAndCopy ==
    [][cell'.name = "series_setitem" =>
          LET label == cell'.args[1]
              v == cell'.args[2]
              i == get_loc(vals.index, label)
          IN  /\ series_values(vals', data')[i] = v
              /\ IF vals.base = 0
                 THEN data' = data
                 ELSE /\ vals'.base = vals.base
                      /\ column(data', vals.base).values[i] = v
                      /\ \A c \in Range(data.columns), r \in 1..Len(data.index) :
                            (c # vals.base \/ r # i) =>
                                column(data', c).values[r] = column(data, c).values[r]]_vars

\* C22 witness: after vals = data.value and vals[1] = 0 the table's column
\* holds 0 at label 1, and after a later copy and vals[1] = 1000 the table
\* still holds 0 there while the copy holds 1000.
C22_Witness ==
    /\ cell.name = "series_setitem"
    /\ cell.args = <<1, Num(1000)>>
    /\ vals.base = 0
    /\ vals.values = <<Num(11), Num(1000)>>
    /\ column(data, 1).values = <<Num(11), Num(0)>>

(***************************************************************************)
(* The cells that assign to the table data, and the cells that derive a    *)
(* table from it (SpecShape).                                              *)
(***************************************************************************)
\* treatment = pd.Series([0]*4 + [1]*2), for a Series of n values: zeros in
\* the first two thirds, ones after them.
treatment(n) ==
    Series(RangeIndex(n), [i \in 1..n |-> IF 3 * i <= 2 * n THEN Num(0) ELSE Num(1)])

\* DataFrame._sanitize_column(key, value) for a scalar: one value per row.
sanitize_scalar(df, value) == [i \in 1..Len(df.index) |-> value]

\* _sanitize_column for a Series that takes the values as they stand.
sanitize_series_as_is(df, value) == value.values

\* DataFrame._sanitize_column(key, value) for a Series: its values at the
\* labels of the table, NaN where the Series has no such label.
sanitize_series(df, value) ==
    IF equals(value.index, df.index) THEN value.values
    ELSE reindex(value, df.index).values

\* The values given stored at the labels given of a column of the table.
set_labels(df, c, labels, values) ==
    [df EXCEPT !.data[get_loc(df.columns, c)] =
        [i \in 1..Len(df.index) |->
            IF \E k \in 1..Len(labels) : labels[k] = df.index[i]
            THEN values[CHOOSE k \in 1..Len(labels) : labels[k] = df.index[i]]
            ELSE @[i]]]

\* Arithmetic of two tables cell by cell where both hold a value: text with
\* a number raises TypeError.
frame_arith(op, left, right) ==
    LET al == frame_align(left, right)
    IN  IF \E j \in 1..Len(al[1].columns), i \in 1..Len(al[1].index) :
              /\ notnull(al[1].data[j][i]) /\ notnull(al[2].data[j][i])
              /\ is_text(al[1].data[j][i]) \/ is_text(al[2].data[j][i])
        THEN Exception("TypeError")
        ELSE combine_frame(op, left, right)

InitShape ==
    /\ lengths2009 = Series(<<>>, <<>>)
    /\ lengths2010 = Series(<<>>, <<>>)
    /\ testing = EmptyFrame
    /\ recs = FrameOver(<<1, 2>>, <<1>>, 100, 1)
    /\ segments = EmptyFrame
    /\ segments_hier = EmptyFrame
    /\ \E r \in {0, MaxRows}, c \in {0, MaxCols} : data = DataTable(r, c)
    /\ vals = Series(<<>>, <<>>)
    /\ testing_csv = <<>>
    /\ length2009 = Series(<<>>, <<>>)
    /\ length2010 = Series(<<>>, <<>>)
    /\ index_cache = <<>>
    /\ normal_vals = EmptyFrame
    /\ cell = Cell("start", <<>>)
    /\ out = EmptyFrame

\* data['year'] = 2013; data, as a column the table was not built with
SetItemScalar ==
    \E key \in {MaxCols + 1} :
        /\ cell' = Cell("setitem_scalar", <<key, Num(2013)>>)
        /\ data' = set_item(data, key, sanitize_scalar(data, Num(2013)))
        /\ out' = data'
        /\ UNCHANGED <<lengths2009, lengths2010, testing, recs, segments, segments_hier,
                       vals, testing_csv, length2009, length2010, index_cache, normal_vals>>

\* data.treatment = 1; data: the attribute is set on the object and the
\* table gets no column.
SetAttr ==
    /\ cell' = Cell("setattr", <<Num(1)>>)
    /\ out' = data
    /\ UNCHANGED <<lengths2009, lengths2010, testing, recs, segments, segments_hier, data,
                   vals, testing_csv, length2009, length2010, index_cache, normal_vals>>

\* data['treatment'] = treatment; data, as a column the table was not built
\* with
SetItemSeries ==
    \E key \in {MaxCols + 1}, n \in 0..(MaxRows + 1) :
        LET value == treatment(n)
            valid == ensure_valid_index(data, value.values)
        IN  /\ cell' = Cell("setitem_series", <<key, value>>)
            /\ data' = set_item(valid, key, sanitize_series(valid, value))
            /\ out' = data'
            /\ UNCHANGED <<lengths2009, lengths2010, testing, recs, segments, segments_hier,
                           vals, testing_csv, length2009, length2010, index_cache, normal_vals>>

\* data.value[[3,4,6]] = [14, 21, 5]; data, at the first labels of the
\* table's first column.
ColumnSetItem ==
    \E k \in 1..3 :
        /\ 1 \in Range(data.columns)
        /\ k <= Len(data.index)
        /\ cell' = Cell("column_setitem", <<1, SubSeq(data.index, 1, k)>>)
        /\ data' = set_labels(data, 1, SubSeq(data.index, 1, k),
                              SubSeq(<<Num(14), Num(21), Num(5)>>, 1, k))
        /\ out' = data'
        /\ UNCHANGED <<lengths2009, lengths2010, testing, recs, segments, segments_hier,
                       vals, testing_csv, length2009, length2010, index_cache, normal_vals>>

\* data.drop('month', axis=1)
DataDrop ==
    \E c \in Range(data.columns) :
        /\ cell' = Cell("drop", <<c, 1>>)
        /\ out' = drop_column(data, c)
        /\ UNCHANGED <<lengths2009, lengths2010, testing, recs, segments, segments_hier, data,
                       vals, testing_csv, length2009, length2010, index_cache, normal_vals>>

\* fillna(0) of the table
DataFillna ==
    /\ cell' = Cell("fillna", <<Num(0)>>)
    /\ out' = fillna(data, Num(0))
    /\ UNCHANGED <<lengths2009, lengths2010, testing, recs, segments, segments_hier, data,
                   vals, testing_csv, length2009, length2010, index_cache, normal_vals>>

\* dropna() and dropna(how='all') of the table
DataDropna ==
    \E how \in Hows :
        /\ cell' = Cell("dropna", <<how, NoThresh>>)
        /\ out' = dropna(data, how, NoThresh)
        /\ UNCHANGED <<lengths2009, lengths2010, testing, recs, segments, segments_hier, data,
                       vals, testing_csv, length2009, length2010, index_cache, normal_vals>>

\* sort_index of the table, by rows and by columns
DataSortIndex ==
    \E axis \in {0, 1}, ascending \in BOOLEAN :
        /\ cell' = Cell("sort_index", <<axis, ascending>>)
        /\ out' \in sort_index(data, axis, ascending)
        /\ UNCHANGED <<lengths2009, lengths2010, testing, recs, segments, segments_hier, data,
                       vals, testing_csv, length2009, length2010, index_cache, normal_vals>>

\* the table + recs, the table - recs
DataArith ==
    \E op \in Ops :
        /\ cell' = Cell("combine_frame", <<op>>)
        /\ out' = frame_arith(op, data, recs)
        /\ UNCHANGED <<lengths2009, lengths2010, testing, recs, segments, segments_hier, data,
                       vals, testing_csv, length2009, length2010, index_cache, normal_vals>>

NextShape ==
    \/ SetItemList \/ SetItemScalar \/ SetAttr \/ SetItemSeries
    \/ ColumnSetItem
    \/ DataDrop \/ DataFillna \/ DataDropna \/ DataSortIndex \/ DataArith

SpecShape == InitShape /\ [][NextShape]_vars

(***************************************************************************)
(* The claim about the shape of tables (SpecShape).                        *)
(***************************************************************************)
\* A table has one column of values for each column label, and each column
\* has one entry for each row label.
HasShape(df) ==
    /\ Len(df.data) = Len(df.columns)
    /\ \A j \in 1..Len(df.columns) : Len(df.data[j]) = Len(df.index)

\* C23: whatever the cells run so far (assignment of a scalar, a Series, a
\* list, a rejected list, elements; drop, fillna, dropna, sort_index,
\* arithmetic), the table and the table the last cell returned have in every
\* column as many entries as the index has labels.
C23_TableShape ==
    /\ HasShape(data)
    /\ IsFrame(out) => HasShape(out)

\* C23 witness: a table of three rows and two columns got a Series of two values as a new
\* column and then an assignment to two elements of its first column; the
\* cell that drops the rows with NaN returned the two rows left.
C23_Witness ==
    /\ cell.name = "dropna"
    /\ Len(data.index) = 3
    /\ Len(data.columns) = 3
    /\ data.data[1] = <<Num(14), Num(21), Num(13)>>
    /\ data.data[3] = <<Num(0), Num(1), NaN>>
    /\ Len(out.index) = 2

(***************************************************************************)
(* Delimited text: read_csv and to_csv (SpecCsv).  A file is its lines, a  *)
(* line is its fields, a field is text.  A table read from a file carries  *)
(* the dtype read_csv inferred for each column and the name of its index.  *)
(***************************************************************************)
\* The fields read_csv takes for a missing value by default.
NA_VALUES == {"", "#N/A", "N/A", "NA", "NULL", "NaN", "n/a", "nan", "null"}

\* The text of the integers and of the floats with no fraction, from 0 on.
IntText == <<"0", "1", "2", "3">>

FloatText == <<"0.0", "1.0", "2.0", "3.0">>

is_int_text(field) == \E k \in 1..Len(IntText) : IntText[k] = field

is_float_text(field) == \E k \in 1..Len(FloatText) : FloatText[k] = field

\* The number a field spells.
to_number(field) ==
    IF is_int_text(field)
    THEN (CHOOSE k \in 1..Len(IntText) : IntText[k] = field) - 1
    ELSE (CHOOSE k \in 1..Len(FloatText) : FloatText[k] = field) - 1

\* A reader that takes only the empty field for a missing value.
isna_field_empty(field, na_values) == field = ""

\* The field stands for a missing value: by default or by na_values.
isna_field(field, na_values) == field \in NA_VALUES \cup na_values

\* The dtype read_csv infers for a column from its fields: int64 when every
\* field is an integer, float64 when every field is a number or missing,
\* object otherwise and for a column without fields.
infer_dtype(fields, na_values) ==
    LET present == {i \in 1..Len(fields) : ~isna_field(fields[i], na_values)}
    IN  IF Len(fields) = 0 THEN "object"
        ELSE IF Cardinality(present) = Len(fields)
                /\ \A i \in present : is_int_text(fields[i]) THEN "int64"
        ELSE IF \A i \in present : is_int_text(fields[i]) \/ is_float_text(fields[i])
             THEN "float64"
        ELSE "object"

\* The value of a field in a column of the dtype given.
convert(field, dtype, na_values) ==
    IF isna_field(field, na_values) THEN NaN
    ELSE IF dtype = "object" THEN Text(field)
    ELSE Num(to_number(field))

\* pd.read_csv(file, index_col=0, na_values=...): the first line is the
\* header, the first field of every line labels the row; an index column
\* without a name in the header has no name.
read_csv(lines, na_values) ==
    LET header == lines[1]
        rows == Tail(lines)
        fields(j) == [i \in 1..Len(rows) |-> rows[i][j + 1]]
        dtypes == [j \in 1..(Len(header) - 1) |-> infer_dtype(fields(j), na_values)]
    IN  [index |-> [i \in 1..Len(rows) |-> to_number(rows[i][1])],
         columns |-> Tail(header),
         data |-> [j \in 1..(Len(header) - 1) |->
                      [i \in 1..Len(rows) |-> convert(rows[i][j + 1], dtypes[j], na_values)]],
         dtypes |-> dtypes,
         names |-> IF header[1] = "" THEN <<>> ELSE <<header[1]>>]

\* The text to_csv writes for a cell: na_rep for a missing value, the digits
\* of an integer, the digits and the fraction of a float, the text itself.
format(x, dtype, na_rep) ==
    IF isnull(x) THEN na_rep
    ELSE IF dtype = "int64" THEN IntText[x[1] + 1]
    ELSE IF dtype = "float64" THEN FloatText[x[1] + 1]
    ELSE x[2]

\* df.to_csv(file, na_rep=...): the header with the name of the index and
\* the column labels, then a line for every row, its label first.
to_csv(df, na_rep) ==
    <<(<<IF df.names = <<>> THEN "" ELSE df.names[1]>> \o df.columns)>> \o
    [i \in 1..Len(df.index) |->
        <<IntText[df.index[i] + 1]>> \o
        [j \in 1..Len(df.columns) |-> format(df.data[j][i], df.dtypes[j], na_rep)]]

\* The fields a file holds in its cells.
Fields == {"", "NA", "1", "2.0", "a"}

\* The files of at most two rows and two columns beside the index column,
\* the rows labelled 1, 2.
Files ==
    UNION {{<<(<<name>> \o SubSeq(<<"x", "y">>, 1, c))>> \o
            [i \in 1..r |-> <<IntText[i + 1]>> \o [j \in 1..c |-> cells[j][i]]] :
                cells \in [1..c -> [1..r -> Fields]]} :
           name \in {"", "id"}, r \in 0..2, c \in 0..2}

\* testing = pd.read_csv('../data/test_scores.csv', index_col=0); no file
\* testing.csv yet.
InitCsv ==
    /\ lengths2009 = Series(<<>>, <<>>)
    /\ lengths2010 = Series(<<>>, <<>>)
    /\ \E file \in Files : testing = read_csv(file, {})
    /\ recs = EmptyFrame
    /\ segments = EmptyFrame
    /\ segments_hier = EmptyFrame
    /\ data = EmptyFrame
    /\ vals = Series(<<>>, <<>>)
    /\ testing_csv = <<>>
    /\ length2009 = Series(<<>>, <<>>)
    /\ length2010 = Series(<<>>, <<>>)
    /\ index_cache = <<>>
    /\ normal_vals = EmptyFrame
    /\ cell = Cell("start", <<>>)
    /\ out = EmptyFrame

\* testing.to_csv("testing.csv"), and with na_rep given
ToCsv ==
    \E na_rep \in {"", "NA", "-"} :
        /\ testing_csv' = to_csv(testing, na_rep)
        /\ cell' = Cell("to_csv", <<na_rep>>)
        /\ out' = EmptyFrame
        /\ UNCHANGED <<lengths2009, lengths2010, testing, recs, segments, segments_hier, data,
                       vals, length2009, length2010, index_cache, normal_vals>>

\* pd.read_csv("testing.csv", index_col=0), and with na_values given; the
\* cell records the na_rep the file was last written with.
ReadCsv ==
    \E na_values \in {{}, {"-"}} :
        /\ cell' = Cell("read_csv", <<na_values, IF cell.name = "to_csv" THEN cell.args[1]
                                                 ELSE IF cell.name = "read_csv" THEN cell.args[2]
                                                 ELSE "">>)
        /\ out' = IF testing_csv = <<>> THEN Exception("FileNotFoundError")
                  ELSE read_csv(testing_csv, na_values)
        /\ UNCHANGED <<lengths2009, lengths2010, testing, recs, segments, segments_hier, data,
                       vals, testing_csv, length2009, length2010, index_cache, normal_vals>>

NextCsv == ToCsv \/ ReadCsv

SpecCsv == InitCsv /\ [][NextCsv]_vars

Indexes(labels, n) == UNION {[1..k -> labels] : k \in 0..n}

\* length2009 = segments.loc[segments.year==2009, 'seg_length'];
\* length2009.index = segments.name[segments.year==2009], and the same for
\* 2010: one entry for each segment, labelled with the name of its ship;
\* the entry at position i holds i in length2009 and 10 * i in length2010.
InitDup ==
    /\ lengths2009 = Series(<<>>, <<>>)
    /\ lengths2010 = Series(<<>>, <<>>)
    /\ testing = EmptyFrame
    /\ recs = EmptyFrame
    /\ segments = EmptyFrame
    /\ segments_hier = EmptyFrame
    /\ data = EmptyFrame
    /\ vals = Series(<<>>, <<>>)
    /\ testing_csv = <<>>
    /\ \E ix \in Indexes(1..MaxKey, MaxLen + 1) :
          length2009 = Series(ix, [i \in 1..Len(ix) |-> Num(i)])
    /\ \E ix \in Indexes(1..MaxKey, MaxLen + 1) :
          length2010 = Series(ix, [i \in 1..Len(ix) |-> Num(10 * i)])
    /\ index_cache = <<>>
    /\ normal_vals = EmptyFrame
    /\ cell = Cell("start", <<>>)
    /\ out = Series(<<>>, <<>>)

\* length2009 + length2010 (and the same with -)
LengthArith ==
    \E op \in Ops :
        /\ cell' = Cell("arith", <<op>>)
        /\ out' = arith(op, length2009, length2010)
        /\ UNCHANGED <<lengths2009, lengths2010, testing, recs, segments, segments_hier, data,
                       vals, testing_csv, length2009, length2010, index_cache, normal_vals>>

\* length2009.add(length2010, fill_value=0)
LengthAddFill ==
    /\ cell' = Cell("flex", <<"add">>)
    /\ out' = flex("add", length2009, length2010, Num(0))
    /\ UNCHANGED <<lengths2009, lengths2010, testing, recs, segments, segments_hier, data,
                   vals, testing_csv, length2009, length2010, index_cache, normal_vals>>

NextDup == LengthArith \/ LengthAddFill

SpecDup == InitDup /\ [][NextDup]_vars

(***************************************************************************)
(* The claim about repeated labels (SpecDup).                              *)
(***************************************************************************)
\* The number of entries of an index that carry the label.
Occurrences(index, l) == Cardinality({i \in 1..Len(index) : index[i] = l})

\* The result holds, at a label both sides have, one entry for every pair
\* of an entry of A and an entry of B with that label, and it holds the
\* pair's combined value.
PairsCombined(op, a, b, result) ==
    \A l \in Range(a.index) \cap Range(b.index) :
        /\ Occurrences(result.index, l) = Occurrences(a.index, l) * Occurrences(b.index, l)
        /\ \A i \in 1..Len(a.index), j \in 1..Len(b.index) :
              (a.index[i] = l /\ b.index[j] = l) =>
                  \E k \in 1..Len(result.index) :
                      /\ result.index[k] = l
                      /\ result.values[k] = na_op(op, a.values[i], b.values[j])

\* C26 as stated: at a label that occurs m times in A and n times in B the
\* result of A (+) B has m * n entries, one for every pair, also when A and
\* B carry the same labels in the same order.
C26_CrossProductAlways ==
    cell.name = "arith" => PairsCombined(cell.args[1], length2009, length2010, out)

\* C26 amended: when the indexes of A and B differ, the result has at a
\* label of both one entry for every pair of occurrences, holding the
\* pair's combined value; when A and B carry the same labels in the same
\* order the result keeps that index and combines position by position.
C26_CrossProductUnlessEqual ==
    cell.name = "arith" =>
        IF length2009.index = length2010.index
        THEN /\ out.index = length2009.index
             /\ \A i \in 1..Len(out.index) :
                   out.values[i] = na_op(cell.args[1], length2009.values[i], length2010.values[i])
        ELSE PairsCombined(cell.args[1], length2009, length2010, out)

\* C26 witness: a label that occurs twice in A and twice in B, the indexes
\* differing, has four entries in the sum.
C26_Witness ==
    /\ cell = Cell("arith", <<"add">>)
    /\ length2009.index # length2010.index
    /\ \E l \in Range(out.index) :
          /\ Occurrences(length2009.index, l) = 2
          /\ Occurrences(length2010.index, l) = 2
          /\ Occurrences(out.index, l) = 4

(***************************************************************************)
(* The index of segments_hier and its cached properties (SpecUnique).      *)
(* is_unique is computed when first asked for and kept with the index      *)
(* object: index_cache is empty, or holds the value kept.  A cell that     *)
(* binds segments_hier to a new table binds it to a new index object,      *)
(* which has nothing cached.                                               *)
(***************************************************************************)
\* cache_readonly: the value kept with the object when there is one, the
\* value computed otherwise.
cache_readonly(cache, computed) == IF cache = <<>> THEN computed ELSE cache[1]

\* A cell that leaves the cache of the old index in place for the new one.
SetIndexKeepsCache ==
    \E n \in 1..3 :
        /\ segments_hier' = sort_index_levels(set_index(segments, SubSeq(<<1, 2, 3>>, 1, n)))
        /\ index_cache' = index_cache
        /\ cell' = Cell("set_index", <<SubSeq(<<1, 2, 3>>, 1, n)>>)
        /\ out' = segments_hier'
        /\ UNCHANGED <<lengths2009, lengths2010, testing, recs, segments, data,
                       vals, testing_csv, length2009, length2010, normal_vals>>

\* segments_hier = segments.set_index(['mmsi', 'name', 'year', ...])
\*                         .sort_index(ascending=True), for the first n keys
SetIndex ==
    \E n \in 1..3 :
        /\ segments_hier' = sort_index_levels(set_index(segments, SubSeq(<<1, 2, 3>>, 1, n)))
        /\ index_cache' = <<>>
        /\ cell' = Cell("set_index", <<SubSeq(<<1, 2, 3>>, 1, n)>>)
        /\ out' = segments_hier'
        /\ UNCHANGED <<lengths2009, lengths2010, testing, recs, segments, data,
                       vals, testing_csv, length2009, length2010, normal_vals>>

\* segments_hier = segments_hier.sort_index(ascending=True)
SortIndexLevels ==
    /\ segments_hier' = sort_index_levels(segments_hier)
    /\ index_cache' = <<>>
    /\ cell' = Cell("sort_index", <<>>)
    /\ out' = segments_hier'
    /\ UNCHANGED <<lengths2009, lengths2010, testing, recs, segments, data,
                   vals, testing_csv, length2009, length2010, normal_vals>>

\* segments_hier = segments_hier.swaplevel('mmsi', 'name')
SwapLevelAssign ==
    \E i, j \in Range(segments_hier.names) :
        /\ segments_hier' = swaplevel(segments_hier, i, j)
        /\ index_cache' = <<>>
        /\ cell' = Cell("swaplevel", <<i, j>>)
        /\ out' = segments_hier'
        /\ UNCHANGED <<lengths2009, lengths2010, testing, recs, segments, data,
                       vals, testing_csv, length2009, length2010, normal_vals>>

\* segments_hier.index.is_unique
IsUnique ==
    /\ out' = cache_readonly(index_cache, is_unique(segments_hier.index))
    /\ index_cache' = <<out'>>
    /\ cell' = Cell("is_unique", <<>>)
    /\ UNCHANGED <<lengths2009, lengths2010, testing, recs, segments, segments_hier, data,
                   vals, testing_csv, length2009, length2010, normal_vals>>

NextUnique == SetIndex \/ SortIndexLevels \/ SwapLevelAssign \/ IsUnique

SpecUnique == InitHier /\ [][NextUnique]_vars

gt(df, v) ==
    DataFrame(df.index, df.columns,
              [j \in 1..Len(df.columns) |->
                  [i \in 1..Len(df.index) |->
                      notnull(df.data[j][i]) /\ df.data[j][i][1] > v]])

\* ~cond
invert(cond) ==
    DataFrame(cond.index, cond.columns,
              [j \in 1..Len(cond.columns) |->
                  [i \in 1..Len(cond.index) |-> ~cond.data[j][i]]])

\* k * df, cell by cell; -normal_vals is (-1) * normal_vals.
scale(df, k) ==
    DataFrame(df.index, df.columns,
              [j \in 1..Len(df.columns) |->
                  [i \in 1..Len(df.index) |->
                      IF isnull(df.data[j][i]) THEN NaN ELSE Num(k * df.data[j][i][1])]])

\* The replacement values of where: the scalar in every cell, the table
\* given, or what the callable returns for the table.
Others == {"nan", "neg", "callable"}

replacement(df, other) ==
    IF other = "nan"
    THEN DataFrame(df.index, df.columns,
                   [j \in 1..Len(df.columns) |-> [i \in 1..Len(df.index) |-> NaN]])
    ELSE IF other = "neg" THEN scale(df, -1)
    ELSE scale(df, -100)

\* DataFrame.where(cond, other): the cell of the table where cond is True,
\* the cell of other elsewhere, under the labels of the table.
where(df, cond, other) ==
    DataFrame(df.index, df.columns,
              [j \in 1..Len(df.columns) |->
                  [i \in 1..Len(df.index) |->
                      IF cond.data[j][i] THEN df.data[j][i] ELSE other.data[j][i]]])

\* mask that does not invert the condition.
mask_as_where(df, cond, other) == where(df, cond, other)

\* DataFrame.mask(cond, other): where(~cond, other).
mask(df, cond, other) == where(df, invert(cond), other)

\* normal_vals = pd.DataFrame({'x{}'.format(i): np.random.randn(100) for i
\* in range(5)}): numbers below and above zero under the default index; a
\* cell may also hold NaN.
NormalVals ==
    UNION {{DataFrame(RangeIndex(r), [j \in 1..c |-> j], values) :
               values \in [1..c -> [1..r -> {NaN, Num(-1), Num(1)}]]} :
           r \in 0..2, c \in 0..2}

\* The tables of booleans with the labels of the table.
Conditions(df) ==
    {DataFrame(df.index, df.columns, values) :
        values \in [1..Len(df.columns) -> [1..Len(df.index) -> BOOLEAN]]}

InitWhere ==
    /\ lengths2009 = Series(<<>>, <<>>)
    /\ lengths2010 = Series(<<>>, <<>>)
    /\ testing = EmptyFrame
    /\ recs = EmptyFrame
    /\ segments = EmptyFrame
    /\ segments_hier = EmptyFrame
    /\ data = EmptyFrame
    /\ vals = Series(<<>>, <<>>)
    /\ testing_csv = <<>>
    /\ length2009 = Series(<<>>, <<>>)
    /\ length2010 = Series(<<>>, <<>>)
    /\ index_cache = <<>>
    /\ normal_vals \in NormalVals
    /\ cell = Cell("start", <<>>)
    /\ out = EmptyFrame

\* normal_vals.where(normal_vals > 0), with other=-normal_vals and with
\* other=lambda y: -y*100; the condition is normal_vals > 0 or any other
\* table of booleans with the labels of normal_vals.
Where ==
    \E cond \in Conditions(normal_vals) \cup {gt(normal_vals, 0)}, other \in Others :
        /\ cell' = Cell("where", <<cond.data, other>>)
        /\ out' = where(normal_vals, cond, replacement(normal_vals, other))
        /\ UNCHANGED <<lengths2009, lengths2010, testing, recs, segments, segments_hier, data,
                       vals, testing_csv, length2009, length2010, index_cache, normal_vals>>

\* normal_vals.mask(normal_vals > 0)
Mask ==
    \E cond \in Conditions(normal_vals) \cup {gt(normal_vals, 0)}, other \in Others :
        /\ cell' = Cell("mask", <<cond.data, other>>)
        /\ out' = mask(normal_vals, cond, replacement(normal_vals, other))
        /\ UNCHANGED <<lengths2009, lengths2010, testing, recs, segments, segments_hier, data,
                       vals, testing_csv, length2009, length2010, index_cache, normal_vals>>

NextWhere == Where \/ Mask

SpecWhere == InitWhere /\ [][NextWhere]_vars

(***************************************************************************)
(* The claim about where and mask (SpecWhere).                             *)
(***************************************************************************)
\* The value that replaces the cell x: Missing, -x or -x * 100.
Replaced(x, other) ==
    IF other = "nan" \/ isnull(x) THEN NaN
    ELSE IF other = "neg" THEN Num(0 - x[1])
    ELSE Num(0 - x[1] * 100)

\* C28: where(C) and mask(C) have the row and column labels of the table;
\* where(C) holds the table's cell where C is True and the replacement
\* (Missing by default) where C is False, and mask(C) holds the table's cell
\* where C is False and the replacement where C is True: every cell of the
\* table is kept by exactly one of the two.
C28_WhereMask ==
    cell.name \in {"where", "mask"} =>
        /\ out.index = normal_vals.index
        /\ out.columns = normal_vals.columns
        /\ HasShape(out)
        /\ \A j \in 1..Len(normal_vals.columns), i \in 1..Len(normal_vals.index) :
              LET kept == (cell.name = "where") <=> cell.args[1][j][i]
              IN  out.data[j][i] = IF kept THEN normal_vals.data[j][i]
                                   ELSE Replaced(normal_vals.data[j][i], cell.args[2])

\* C28 witness: mask(normal_vals > 0) on a table that holds -1 and 1 in its
\* first column has kept the -1 and put Missing for the 1.
C28_Witness ==
    /\ cell.name = "mask"
    /\ cell.args[2] = "nan"
    /\ Len(normal_vals.columns) = 2
    /\ normal_vals.data[1] = <<Num(-1), Num(1)>>
    /\ cell.args[1] = gt(normal_vals, 0).data
    /\ out.data[1] = <<Num(-1), NaN>>

====
